---- MODULE Spec2Model ----
(***************************************************************************)
(* Filefreezer storage engine (storage.go): the five tables, the           *)
(* transaction wrapper `transact`, and the storage verbs that run under    *)
(* it, executed by concurrent request handlers over one SQLite database.   *)
(***************************************************************************)
EXTENDS Integers, Sequences, FiniteSets, TLC

\* ---------------------------------------------------------------- bounds
\* Storage.ChunkSize as configured for the model (the server flag --cs).
ChunkSize == 2
\* Total number of storage calls issued in one behaviour.
MaxCalls == 2
\* Largest chunk number a client sends.
MaxChunkNum == 1

\* The quota given to every user that has a Perms row.
Quota == ChunkSize + 1

\* The request handlers that run concurrently.
Procs == {1, 2}

Users == {1, 2}
\* File ids a request may name; the last one is never registered.
FileIDArgs == 1 .. 3
ChunkNums == 0 .. MaxChunkNum

\* A chunk body of n bytes.
Fill(n) == [i \in 1 .. n |-> 1]
\* The (chunkHash, chunk) pairs a client sends: every length from empty to
\* one byte more than the server accepts, and a second hash for one byte.
ChunkArgs ==
    {[chunkHash |-> "h1", chunk |-> Fill(n)] : n \in 0 .. ChunkSize + 1}
        \cup {[chunkHash |-> "h2", chunk |-> Fill(1)]}

\* ---------------------------------------------------------------- errors
ErrNil == "nil"
ErrChunkTooLarge == "chunk too large"
ErrNoOwner == "failed to get the owning user id"
ErrNotOwner == "user does not own the file id supplied"
ErrNoQuota == "failed to get the user quota"
ErrNoUserInfo == "failed to get the user info"
ErrQuota == "not enough free allocation space"
ErrExec == "failed to execute the statement"
ErrNoChunk == "failed to get the existing chunk"
ErrNoRows == "sql: no rows in result set"
ErrAffected == "no rows were affected"
ErrBegin == "Begin failed"
ErrFoo == "transFoo failed"
ErrPanic == "panic value of type error"
ErrPanicText == "panic: boom"
ErrPanicNil == "panic called with nil argument"
ErrCommit == "commit failed"

\* ---------------------------------------------------------------- state
\* The tables in the order in which CreateTables creates them.
TableNames == <<"Users", "Perms", "UserInfo", "FileInfo", "FileChunks">>
AllTables == {TableNames[i] : i \in DOMAIN TableNames}

VARIABLES
    Perms,       \* table Perms: UserID -> Quota
    UserInfo,    \* table UserInfo: UserID -> [Allocated, Revision]
    FileInfo,    \* table FileInfo: FileID -> [UserID, FileName, LastMod, ChunkCount, FileHash]
    FileChunks,  \* table FileChunks: a set of rows [FileID, ChunkNum, ChunkHash, Chunk]
    shared,      \* the transactions that hold the database's SHARED lock
    reserved,    \* the transactions that hold the RESERVED lock: none or one
    wtx,         \* the uncommitted tables of the transaction holding RESERVED
    pc,          \* per request handler: idle, called, write, commit, done
    call,        \* per request handler: the verb in flight and its arguments
    result,      \* per request handler: what its last call returned
    calls,       \* number of calls issued so far
    committed,   \* per user: [n, delta] of the chunk mutations that committed
    UsersTable,  \* table Users: UserID -> [Name, Salt, Password]
    trans,       \* one run of transact around a function under test
    client,      \* one run of the sync client: its inputs, position and requests
    schema       \* the tables that exist in the database file

tables == <<Perms, UserInfo, FileInfo, FileChunks>>
locks == <<shared, reserved, wtx>>
outside == <<UsersTable, trans, client, schema>>
vars == <<Perms, UserInfo, FileInfo, FileChunks, shared, reserved, wtx,
          pc, call, result, calls, committed, UsersTable, trans, client,
          schema>>

NoTx == [open |-> FALSE]
NoCall == [verb |-> "none"]
NoResult == [verb |-> "none"]
NoTrans == [pc |-> "none"]
NoClient ==
    [pc |-> "none", strict |-> FALSE, localState |-> "absent", bytes |-> <<>>,
     local |-> <<>>, localLastMod |-> 0, lookup |-> "none",
     remote |-> [FileID |-> 0], remoteChunks |-> <<>>, different |-> FALSE,
     remoteID |-> 0, written |-> <<>>, status |-> 0, changeCount |-> 0,
     err |-> ErrNil, i |-> 0, via |-> "none", log |-> <<>>,
     run |-> 0, tampered |-> FALSE, prev |-> [run |-> 0]]

\* ------------------------------------------------------- SQL statements

\* Mutant of FileOwnerCheck: the owner read is not compared with the caller.
FileOwnerCheck_NoCompare(fi, userID, fileID) ==
    IF fileID \notin DOMAIN fi THEN ErrNoOwner ELSE ErrNil

\* getFileInfoOwner: the owner of fileID, or an error when no row matches.
FileOwnerCheck(fi, userID, fileID) ==
    IF fileID \notin DOMAIN fi THEN ErrNoOwner
    ELSE IF fi[fileID].UserID # userID THEN ErrNotOwner
    ELSE ErrNil

\* The rows of FileChunks that getFileChunk / removeFileChunk select.
ChunkRows(fc, fileID, chunkNumber) ==
    {r \in fc : r.FileID = fileID /\ r.ChunkNum = chunkNumber}

\* Mutant of InsertOrReplaceChunk: INSERT OR IGNORE keeps the stored row.
InsertOrReplaceChunk_Ignore(fc, fileID, chunkNumber, chunkHash, chunk) ==
    IF \E r \in fc : r.FileID = fileID THEN fc
    ELSE fc \cup {[FileID |-> fileID, ChunkNum |-> chunkNumber,
                   ChunkHash |-> chunkHash, Chunk |-> chunk]}

\* addFileChunk: INSERT OR REPLACE; FileID alone is the table's PRIMARY KEY,
\* so the row that holds the same FileID is replaced.
InsertOrReplaceChunk(fc, fileID, chunkNumber, chunkHash, chunk) ==
    {r \in fc : r.FileID # fileID}
        \cup {[FileID |-> fileID, ChunkNum |-> chunkNumber,
               ChunkHash |-> chunkHash, Chunk |-> chunk]}

\* Mutant of DeleteChunk: the DELETE matches the row and leaves it stored.
DeleteChunk_Keep(fc, fileID, chunkNumber) == fc

\* removeFileChunk: DELETE ... WHERE FileID = ? AND ChunkNum = ?
DeleteChunk(fc, fileID, chunkNumber) ==
    fc \ ChunkRows(fc, fileID, chunkNumber)

\* updateUserInfo: the number of rows the UPDATE affects.
UpdateUserInfoAffected(ui, userID) ==
    IF userID \in DOMAIN ui THEN 1 ELSE 0

\* Mutant of UpdateUserInfoRow: the UPDATE leaves Revision as it is.
UpdateUserInfoRow_NoRevision(ui, userID, delta) ==
    IF userID \in DOMAIN ui
    THEN [ui EXCEPT ![userID] = [Allocated |-> @.Allocated + delta,
                                 Revision |-> @.Revision]]
    ELSE ui

\* Mutant of UpdateUserInfoRow: the UPDATE stores the delta as the new
\* allocation count instead of adding it.
UpdateUserInfoRow_SetAllocated(ui, userID, delta) ==
    IF userID \in DOMAIN ui
    THEN [ui EXCEPT ![userID] = [Allocated |-> delta,
                                 Revision |-> @.Revision + 1]]
    ELSE ui

\* Mutant of UpdateUserInfoRow: Revision rises only when Allocated changes.
UpdateUserInfoRow_RevisionIfChanged(ui, userID, delta) ==
    IF userID \in DOMAIN ui
    THEN [ui EXCEPT ![userID] =
            [Allocated |-> @.Allocated + delta,
             Revision |-> IF delta = 0 THEN @.Revision ELSE @.Revision + 1]]
    ELSE ui

\* updateUserInfo: Allocated = Allocated + delta, Revision = Revision + 1.
UpdateUserInfoRow(ui, userID, delta) ==
    IF userID \in DOMAIN ui
    THEN [ui EXCEPT ![userID] = [Allocated |-> @.Allocated + delta,
                                 Revision |-> @.Revision + 1]]
    ELSE ui

\* Mutant of ChunkTooLarge: a chunk of exactly ChunkSize bytes is refused.
ChunkTooLarge_OffByOne(chunkLength) == chunkLength >= ChunkSize

\* The sanity check of AddFileChunk on the length of the chunk.
ChunkTooLarge(chunkLength) == chunkLength > ChunkSize

\* Mutant of QuotaViolation: a chunk that exactly fills the quota is refused.
QuotaViolation_OffByOne(quota, allocated, chunkLength) ==
    (quota - allocated) <= chunkLength

\* The quota test of AddFileChunk.
QuotaViolation(quota, allocated, chunkLength) ==
    (quota - allocated) < chunkLength

\* Mutant of AddFileChunkReads: the owner of the file is not queried.
AddFileChunkReads_NoOwnerQuery(perms, ui, fi, userID, fileID, chunkLength) ==
    IF userID \notin DOMAIN perms THEN ErrNoQuota
    ELSE IF userID \notin DOMAIN ui THEN ErrNoUserInfo
    ELSE IF QuotaViolation(perms[userID], ui[userID].Allocated, chunkLength)
         THEN ErrQuota
    ELSE ErrNil

\* The statements AddFileChunk runs before it writes: ownership, then the
\* quota and the allocation count, then the quota test.
AddFileChunkReads(perms, ui, fi, userID, fileID, chunkLength) ==
    LET own == FileOwnerCheck(fi, userID, fileID) IN
    IF own # ErrNil THEN own
    ELSE IF userID \notin DOMAIN perms THEN ErrNoQuota
    ELSE IF userID \notin DOMAIN ui THEN ErrNoUserInfo
    ELSE IF QuotaViolation(perms[userID], ui[userID].Allocated, chunkLength)
         THEN ErrQuota
    ELSE ErrNil

\* The statements RemoveFileChunk runs before it writes: ownership, then
\* the existing chunk.
RemoveFileChunkReads(fi, fc, userID, fileID, chunkNumber) ==
    LET own == FileOwnerCheck(fi, userID, fileID) IN
    IF own # ErrNil THEN own
    ELSE IF ChunkRows(fc, fileID, chunkNumber) = {} THEN ErrNoChunk
    ELSE ErrNil

\* sort.Ints over the chunk numbers scanned from the rows of one file.
RECURSIVE SortInts(_)
SortInts(S) ==
    IF S = {} THEN <<>>
    ELSE LET m == CHOOSE x \in S : \A y \in S : x <= y
         IN <<m>> \o SortInts(S \ {m})

\* sort.SearchInts: the smallest 0-based index i with a[i] >= x, or len(a).
SearchInts(a, x) ==
    LET hits == {i \in 0 .. Len(a) - 1 : a[i + 1] >= x}
    IN IF hits = {} THEN Len(a)
       ELSE CHOOSE i \in hits : \A j \in hits : i <= j

\* The loop of GetMissingChunkNumbersForFile over 0 .. ChunkCount-1, from i on.
RECURSIVE MissingFrom(_, _, _)
MissingFrom(knownChunks, i, chunkCount) ==
    IF i >= chunkCount THEN <<>>
    ELSE (IF SearchInts(knownChunks, i) >= Len(knownChunks) THEN <<i>> ELSE <<>>)
             \o MissingFrom(knownChunks, i + 1, chunkCount)

\* Mutant of MissingChunkNumbers: the loop runs to chunkCount inclusive.
MissingChunkNumbers_PastCount(fi, fc, fileID) ==
    LET knownChunks == SortInts({r.ChunkNum : r \in {x \in fc : x.FileID = fileID}})
    IN MissingFrom(knownChunks, 0, fi[fileID].ChunkCount + 1)

\* The list GetMissingChunkNumbersForFile returns for a file its caller owns.
MissingChunkNumbers(fi, fc, fileID) ==
    LET knownChunks == SortInts({r.ChunkNum : r \in {x \in fc : x.FileID = fileID}})
    IN MissingFrom(knownChunks, 0, fi[fileID].ChunkCount)

\* ------------------------------------------------------------ transact

\* Mutant of TxReadLock: the queries run on the database handle, outside
\* the transaction, and leave no lock behind.
TxReadLock_NoTx(sh, p) == sh

\* The SHARED lock holders once handler p has run a query on its transaction.
TxReadLock(sh, p) == sh \cup {p}

\* Mutant of VisibleAfterTxExec: the statement runs on the database handle
\* (s.db.Exec) and is committed at once.
VisibleAfterTxExec_AutoCommit(old, new) == new

\* What other connections see of a table after a statement ran on an open
\* transaction (tx.Exec): the committed rows, not the new ones.
VisibleAfterTxExec(old, new) == old

\* The locks after the transaction of p ended (Commit or Rollback).
Release(p) ==
    /\ shared' = shared \ {p}
    /\ reserved' = reserved \ {p}
    /\ wtx' = IF p \in reserved THEN NoTx ELSE wtx

\* Handler p returns (err, data). txn: whether the call opened a
\* transaction; old: the rows a committed AddFileChunk found under its key.
Return(p, verb, err, data, txn, old) ==
    /\ pc' = [pc EXCEPT ![p] = "done"]
    /\ call' = [call EXCEPT ![p] = NoCall]
    /\ result' = [result EXCEPT ![p] =
                    [verb |-> verb, err |-> err, data |-> data, txn |-> txn,
                     old |-> old]]

CanCall(p) == pc[p] \in {"idle", "done"} /\ calls < MaxCalls

NoData == <<>>

\* --------------------------------------------------------- AddFileChunk

\* A handler is handed an AddFileChunk request.
AddFileChunkCall(p, userID, fileID, chunkNumber, chunkHash, chunk) ==
    /\ CanCall(p)
    /\ calls' = calls + 1
    /\ pc' = [pc EXCEPT ![p] = "called"]
    /\ call' = [call EXCEPT ![p] =
                  [verb |-> "AddFileChunk", userID |-> userID,
                   fileID |-> fileID, chunkNumber |-> chunkNumber,
                   chunkHash |-> chunkHash, chunk |-> chunk,
                   delta |-> Len(chunk)]]
    /\ result' = [result EXCEPT ![p] = NoResult]
    /\ UNCHANGED <<tables, locks, committed, outside>>

\* AddFileChunk up to its first write: the size check, then, on a new
\* transaction, the ownership query, the quota and allocation queries and
\* the quota test. An error rolls the transaction back.
AddFileChunkBegin(p) ==
    /\ pc[p] = "called"
    /\ call[p].verb = "AddFileChunk"
    /\ LET c == call[p]
           chunkLength == Len(c.chunk) IN
       IF ChunkTooLarge(chunkLength)
       THEN /\ Return(p, "AddFileChunk", ErrChunkTooLarge, NoData, FALSE, {})
            /\ UNCHANGED locks
       ELSE LET err == AddFileChunkReads(Perms, UserInfo, FileInfo,
                                         c.userID, c.fileID, chunkLength) IN
            IF err # ErrNil
            THEN /\ Return(p, "AddFileChunk", err, NoData, TRUE, {})
                 /\ UNCHANGED locks
            ELSE /\ pc' = [pc EXCEPT ![p] = "write"]
                 /\ shared' = TxReadLock(shared, p)
                 /\ UNCHANGED <<reserved, wtx, call, result>>
    /\ UNCHANGED <<tables, calls, committed, outside>>

\* AddFileChunk's two writes on its transaction: the INSERT OR REPLACE of
\* the chunk and the UPDATE of the allocation count. The first write needs
\* the RESERVED lock; the statement fails when another transaction holds it.
AddFileChunkWrite(p) ==
    /\ pc[p] = "write"
    /\ call[p].verb = "AddFileChunk"
    /\ LET c == call[p]
           newFC == InsertOrReplaceChunk(FileChunks, c.fileID, c.chunkNumber,
                                         c.chunkHash, c.chunk)
           newUI == UpdateUserInfoRow(UserInfo, c.userID, c.delta)
       IN
       IF reserved # {}
       THEN /\ Return(p, "AddFileChunk", ErrExec, NoData, TRUE, {})
            /\ Release(p)
            /\ UNCHANGED tables
       ELSE IF UpdateUserInfoAffected(UserInfo, c.userID) # 1
       THEN /\ Return(p, "AddFileChunk", ErrAffected, NoData, TRUE, {})
            /\ Release(p)
            /\ UNCHANGED tables
       ELSE /\ reserved' = {p}
            /\ wtx' = [open |-> TRUE, UserInfo |-> newUI, FileChunks |-> newFC]
            /\ pc' = [pc EXCEPT ![p] = "commit"]
            /\ FileChunks' = VisibleAfterTxExec(FileChunks, newFC)
            /\ UserInfo' = VisibleAfterTxExec(UserInfo, newUI)
            /\ UNCHANGED <<Perms, FileInfo, shared, call, result>>
    /\ UNCHANGED <<calls, committed, outside>>

\* ------------------------------------------------------ RemoveFileChunk

\* A handler is handed a RemoveFileChunk request.
RemoveFileChunkCall(p, userID, fileID, chunkNumber) ==
    /\ CanCall(p)
    /\ calls' = calls + 1
    /\ pc' = [pc EXCEPT ![p] = "called"]
    /\ call' = [call EXCEPT ![p] =
                  [verb |-> "RemoveFileChunk", userID |-> userID,
                   fileID |-> fileID, chunkNumber |-> chunkNumber,
                   chunkHash |-> "", chunk |-> <<>>, delta |-> 0]]
    /\ result' = [result EXCEPT ![p] = NoResult]
    /\ UNCHANGED <<tables, locks, committed, outside>>

\* Mutant of RemoveFileChunkBegin: a missing chunk is not an error; the
\* verb reports a removal that did not happen.
RemoveFileChunkBegin_AbsentIsRemoved(p) ==
    /\ pc[p] = "called"
    /\ call[p].verb = "RemoveFileChunk"
    /\ LET c == call[p]
           err == RemoveFileChunkReads(FileInfo, FileChunks, c.userID,
                                       c.fileID, c.chunkNumber) IN
       IF err = ErrNoChunk
       THEN /\ Return(p, "RemoveFileChunk", ErrNil, TRUE, TRUE, {})
            /\ UNCHANGED locks
       ELSE IF err # ErrNil
       THEN /\ Return(p, "RemoveFileChunk", err, FALSE, TRUE, {})
            /\ UNCHANGED locks
       ELSE LET row == CHOOSE r \in ChunkRows(FileChunks, c.fileID,
                                              c.chunkNumber) : TRUE
            IN /\ pc' = [pc EXCEPT ![p] = "write"]
               /\ call' = [call EXCEPT ![p].chunkHash = row.ChunkHash,
                                       ![p].chunk = row.Chunk,
                                       ![p].delta = 0 - Len(row.Chunk)]
               /\ shared' = TxReadLock(shared, p)
               /\ UNCHANGED <<reserved, wtx, result>>
    /\ UNCHANGED <<tables, calls, committed, outside>>

\* RemoveFileChunk up to its first write: on a new transaction, the
\* ownership query and the read of the existing chunk, whose length is the
\* allocation count to give back.
RemoveFileChunkBegin(p) ==
    /\ pc[p] = "called"
    /\ call[p].verb = "RemoveFileChunk"
    /\ LET c == call[p]
           err == RemoveFileChunkReads(FileInfo, FileChunks, c.userID,
                                       c.fileID, c.chunkNumber) IN
       IF err # ErrNil
       THEN /\ Return(p, "RemoveFileChunk", err, FALSE, TRUE, {})
            /\ UNCHANGED locks
       ELSE LET row == CHOOSE r \in ChunkRows(FileChunks, c.fileID,
                                              c.chunkNumber) : TRUE
            IN /\ pc' = [pc EXCEPT ![p] = "write"]
               /\ call' = [call EXCEPT ![p].chunkHash = row.ChunkHash,
                                       ![p].chunk = row.Chunk,
                                       ![p].delta = 0 - Len(row.Chunk)]
               /\ shared' = TxReadLock(shared, p)
               /\ UNCHANGED <<reserved, wtx, result>>
    /\ UNCHANGED <<tables, calls, committed, outside>>

\* RemoveFileChunk's two writes on its transaction: the DELETE of the chunk
\* and the UPDATE of the allocation count.
RemoveFileChunkWrite(p) ==
    /\ pc[p] = "write"
    /\ call[p].verb = "RemoveFileChunk"
    /\ LET c == call[p]
           affected == Cardinality(ChunkRows(FileChunks, c.fileID, c.chunkNumber))
           newFC == DeleteChunk(FileChunks, c.fileID, c.chunkNumber)
           newUI == UpdateUserInfoRow(UserInfo, c.userID, c.delta)
       IN
       IF reserved # {}
       THEN /\ Return(p, "RemoveFileChunk", ErrExec, FALSE, TRUE, {})
            /\ Release(p)
            /\ UNCHANGED tables
       ELSE IF affected <= 0 \/ UpdateUserInfoAffected(UserInfo, c.userID) # 1
       THEN /\ Return(p, "RemoveFileChunk", ErrAffected, FALSE, TRUE, {})
            /\ Release(p)
            /\ UNCHANGED tables
       ELSE /\ reserved' = {p}
            /\ wtx' = [open |-> TRUE, UserInfo |-> newUI, FileChunks |-> newFC]
            /\ pc' = [pc EXCEPT ![p] = "commit"]
            /\ FileChunks' = VisibleAfterTxExec(FileChunks, newFC)
            /\ UserInfo' = VisibleAfterTxExec(UserInfo, newUI)
            /\ UNCHANGED <<Perms, FileInfo, shared, call, result>>
    /\ UNCHANGED <<calls, committed, outside>>

\* --------------------------------------------------- transact: the end

\* tx.Commit succeeds: no other transaction holds the SHARED lock, the
\* writes of p become the database's tables, and the verb returns nil.
TxCommit(p) ==
    /\ pc[p] = "commit"
    /\ shared \ {p} = {}
    /\ wtx.open
    /\ UserInfo' = wtx.UserInfo
    /\ FileChunks' = wtx.FileChunks
    /\ Release(p)
    /\ Return(p, call[p].verb, ErrNil,
              IF call[p].verb = "RemoveFileChunk" THEN TRUE ELSE NoData, TRUE,
              IF call[p].verb = "AddFileChunk"
              THEN ChunkRows(FileChunks, call[p].fileID, call[p].chunkNumber)
              ELSE {})
    /\ committed' = [committed EXCEPT ![call[p].userID] =
                        [n |-> @.n + 1, delta |-> @.delta + call[p].delta]]
    /\ UNCHANGED <<Perms, FileInfo, calls, outside>>

\* tx.Commit fails: another transaction still holds the SHARED lock when the
\* busy timeout runs out; the transaction is rolled back and the verb
\* returns the commit error.
TxCommitBusy(p) ==
    /\ pc[p] = "commit"
    /\ shared \ {p} # {}
    /\ Release(p)
    /\ Return(p, call[p].verb, ErrCommit,
              IF call[p].verb = "RemoveFileChunk" THEN FALSE ELSE NoData, TRUE, {})
    /\ UNCHANGED <<tables, calls, committed, outside>>

\* ------------------------------------------------------------- queries

\* GetFileInfo: ownership check and load in one read-only transaction.
GetFileInfo(p, userID, fileID) ==
    /\ CanCall(p)
    /\ calls' = calls + 1
    /\ LET err == FileOwnerCheck(FileInfo, userID, fileID) IN
       Return(p, "GetFileInfo", err,
              IF err = ErrNil
              THEN [FileID |-> fileID, UserID |-> FileInfo[fileID].UserID,
                    FileName |-> FileInfo[fileID].FileName,
                    LastMod |-> FileInfo[fileID].LastMod,
                    ChunkCount |-> FileInfo[fileID].ChunkCount,
                    FileHash |-> FileInfo[fileID].FileHash]
              ELSE NoData,
              TRUE, {})
    /\ UNCHANGED <<tables, locks, committed, outside>>

\* GetMissingChunkNumbersForFile: ownership check, file info and chunk rows
\* in one read-only transaction, then the search for the absent numbers.
GetMissingChunkNumbersForFile(p, userID, fileID) ==
    /\ CanCall(p)
    /\ calls' = calls + 1
    /\ LET err == FileOwnerCheck(FileInfo, userID, fileID) IN
       Return(p, "GetMissingChunkNumbersForFile", err,
              IF err = ErrNil
              THEN MissingChunkNumbers(FileInfo, FileChunks, fileID)
              ELSE NoData,
              TRUE, {})
    /\ UNCHANGED <<tables, locks, committed, outside>>

\* What GetFileChunk reads: the row selected by (fileID, chunkNumber).
GetFileChunkQuery(fc, fileID, chunkNumber) ==
    LET rows == ChunkRows(fc, fileID, chunkNumber) IN
    IF rows = {}
    THEN [err |-> ErrNoRows, data |-> NoData]
    ELSE LET r == CHOOSE x \in rows : TRUE
         IN [err |-> ErrNil,
             data |-> [FileID |-> fileID, ChunkNumber |-> chunkNumber,
                       ChunkHash |-> r.ChunkHash, Chunk |-> r.Chunk]]

\* GetFileChunk: one query on the database handle, no caller id.
GetFileChunk(p, fileID, chunkNumber) ==
    /\ CanCall(p)
    /\ calls' = calls + 1
    /\ LET q == GetFileChunkQuery(FileChunks, fileID, chunkNumber) IN
       Return(p, "GetFileChunk", q.err, q.data, FALSE, {})
    /\ UNCHANGED <<tables, locks, committed, outside>>

\* ------------------------------------------------------- UpdateUserInfo

\* A handler is handed an UpdateUserInfo request.
UpdateUserInfoCall(p, userID, allocDelta) ==
    /\ CanCall(p)
    /\ calls' = calls + 1
    /\ pc' = [pc EXCEPT ![p] = "called"]
    /\ call' = [call EXCEPT ![p] =
                  [verb |-> "UpdateUserInfo", userID |-> userID,
                   delta |-> allocDelta]]
    /\ result' = [result EXCEPT ![p] = NoResult]
    /\ UNCHANGED <<tables, locks, committed, outside>>

\* UpdateUserInfo: one UPDATE on the database handle, committed by the
\* statement itself. The statement fails when a transaction holds a lock on
\* the database, and the verb fails when the UPDATE affected no row.
UpdateUserInfo(p) ==
    /\ pc[p] = "called"
    /\ call[p].verb = "UpdateUserInfo"
    /\ LET c == call[p] IN
       IF shared # {} \/ reserved # {}
       THEN /\ Return(p, "UpdateUserInfo", ErrExec, NoData, FALSE, {})
            /\ UNCHANGED <<tables, committed>>
       ELSE IF UpdateUserInfoAffected(UserInfo, c.userID) # 1
       THEN /\ Return(p, "UpdateUserInfo", ErrAffected, NoData, FALSE, {})
            /\ UNCHANGED <<tables, committed>>
       ELSE /\ Return(p, "UpdateUserInfo", ErrNil, NoData, FALSE, {})
            /\ UserInfo' = UpdateUserInfoRow(UserInfo, c.userID, c.delta)
            /\ committed' = [committed EXCEPT ![c.userID] =
                                [n |-> @.n + 1, delta |-> @.delta + c.delta]]
            /\ UNCHANGED <<Perms, FileInfo, FileChunks>>
    /\ UNCHANGED <<locks, calls, outside>>

\* --------------------------------------------------- GetAllUserFileInfos

\* Mutant of GetAllUserFilesRows: the SELECT has no WHERE clause.
GetAllUserFilesRows_AllUsers(fi, userID) ==
    LET ids == SortInts(DOMAIN fi) IN
    [i \in 1 .. Len(ids) |->
        [FileID |-> ids[i], UserID |-> userID,
         FileName |-> fi[ids[i]].FileName, LastMod |-> fi[ids[i]].LastMod,
         ChunkCount |-> fi[ids[i]].ChunkCount,
         FileHash |-> fi[ids[i]].FileHash]]

\* getAllUserFiles and the loop over its rows: one FileInfo per row of the
\* user, in the order of the table's key, with UserID set to the argument.
GetAllUserFilesRows(fi, userID) ==
    LET ids == SortInts({f \in DOMAIN fi : fi[f].UserID = userID}) IN
    [i \in 1 .. Len(ids) |->
        [FileID |-> ids[i], UserID |-> userID,
         FileName |-> fi[ids[i]].FileName, LastMod |-> fi[ids[i]].LastMod,
         ChunkCount |-> fi[ids[i]].ChunkCount,
         FileHash |-> fi[ids[i]].FileHash]]

\* GetAllUserFileInfos: one query on the database handle; the slice it
\* returns is allocated before the loop.
GetAllUserFileInfos(p, userID) ==
    /\ CanCall(p)
    /\ calls' = calls + 1
    /\ Return(p, "GetAllUserFileInfos", ErrNil,
              [infos |-> GetAllUserFilesRows(FileInfo, userID)], FALSE, {})
    /\ UNCHANGED <<tables, locks, committed, outside>>

\* ------------------------------------------- CreateTables, openStorage

ErrOpen == "failed to open the database"
CreateErrs == <<"failed to create the USERS table",
                "failed to create the PERMS table",
                "failed to create the USERINFO table",
                "failed to create the FILEINFO table",
                "failed to create the FILECHUNKS table">>

\* CREATE TABLE with no IF NOT EXISTS clause.
ExecCreate_IfNotExists(sch, name) ==
    [failed |-> FALSE, schema |-> sch \cup {name}]

\* One CREATE TABLE statement: it fails on a table that exists and adds the
\* table otherwise.
ExecCreate(sch, name) ==
    IF name \in sch
    THEN [failed |-> TRUE, schema |-> sch]
    ELSE [failed |-> FALSE, schema |-> sch \cup {name}]

\* openStorage: NewStorage opens the database file; its error is returned.
openStorage(p, opened) ==
    /\ CanCall(p)
    /\ calls' = calls + 1
    /\ IF opened
       THEN /\ pc' = [pc EXCEPT ![p] = "createTables"]
            /\ call' = [call EXCEPT ![p] = [verb |-> "openStorage", stmt |-> 1]]
            /\ UNCHANGED result
       ELSE Return(p, "openStorage", ErrOpen, NoData, FALSE, {})
    /\ UNCHANGED <<tables, locks, committed, outside>>

\* CreateTables, one statement at a time on the database handle: the first
\* statement that fails ends it with that table's error. openStorage drops
\* what CreateTables returned and hands out the store.
CreateTables(p) ==
    /\ pc[p] = "createTables"
    /\ LET i == call[p].stmt
           busy == shared # {} \/ reserved # {}
           exec == ExecCreate(schema, TableNames[i])
       IN
       IF busy \/ exec.failed
       THEN /\ Return(p, "openStorage", ErrNil,
                      [CreateTables |-> CreateErrs[i]], FALSE, {})
            /\ UNCHANGED schema
       ELSE /\ schema' = exec.schema
            /\ IF i = Len(TableNames)
               THEN Return(p, "openStorage", ErrNil,
                           [CreateTables |-> ErrNil], FALSE, {})
               ELSE /\ call' = [call EXCEPT ![p].stmt = i + 1]
                    /\ UNCHANGED <<pc, result>>
    /\ UNCHANGED <<tables, locks, calls, committed, UsersTable, trans, client>>

\* ------------------------------------------- SetUserQuota, SetUserInfo

\* setUserQuota: INSERT OR REPLACE of the row (UserID, Quota).
SetUserQuotaRow(perms, userID, quota) ==
    [u \in DOMAIN perms \cup {userID} |->
        IF u = userID THEN quota ELSE perms[u]]

\* setUserInfo: INSERT OR REPLACE of the row (UserID, Allocated, Revision).
SetUserInfoRow(ui, userID, allocated, revision) ==
    [u \in DOMAIN ui \cup {userID} |->
        IF u = userID THEN [Allocated |-> allocated, Revision |-> revision]
        ELSE ui[u]]

\* SetUserQuota: one statement on the database handle, committed by the
\* statement itself; it fails when a transaction holds a lock.
SetUserQuota(p, userID, quota) ==
    /\ CanCall(p)
    /\ calls' = calls + 1
    /\ IF shared # {} \/ reserved # {}
       THEN /\ Return(p, "SetUserQuota", ErrExec, NoData, FALSE, {})
            /\ UNCHANGED tables
       ELSE /\ Return(p, "SetUserQuota", ErrNil, NoData, FALSE, {})
            /\ Perms' = SetUserQuotaRow(Perms, userID, quota)
            /\ UNCHANGED <<UserInfo, FileInfo, FileChunks>>
    /\ UNCHANGED <<locks, committed, outside>>

\* SetUserInfo: one statement on the database handle, likewise.
SetUserInfo(p, userID, allocated, revision) ==
    /\ CanCall(p)
    /\ calls' = calls + 1
    /\ IF shared # {} \/ reserved # {}
       THEN /\ Return(p, "SetUserInfo", ErrExec, NoData, FALSE, {})
            /\ UNCHANGED tables
       ELSE /\ Return(p, "SetUserInfo", ErrNil, NoData, FALSE, {})
            /\ UserInfo' = SetUserInfoRow(UserInfo, userID, allocated,
                                          revision)
            /\ UNCHANGED <<Perms, FileInfo, FileChunks>>
    /\ UNCHANGED <<locks, committed, outside>>

\* ---------------------------------------------------- AddFileInfo, AddUser

\* The rowid SQLite gives the next row of a table keyed by INTEGER PRIMARY
\* KEY: one more than the largest in use.
LastInsertId(table) ==
    IF DOMAIN table = {} THEN 1
    ELSE 1 + (CHOOSE m \in DOMAIN table : \A k \in DOMAIN table : k <= m)

\* A table with one more row under the given id.
InsertRow(table, id, row) ==
    [k \in DOMAIN table \cup {id} |-> IF k = id THEN row ELSE table[k]]

\* Mutant of AddFileInfoAffected: a plain INSERT, without WHERE NOT EXISTS.
AddFileInfoAffected_NoExistsTest(fi, userID, filename) == 1

\* addFileInfo: the number of rows INSERT ... SELECT ... WHERE NOT EXISTS
\* (a row with this UserID and FileName) inserts.
AddFileInfoAffected(fi, userID, filename) ==
    IF \E f \in DOMAIN fi : fi[f].UserID = userID /\ fi[f].FileName = filename
    THEN 0 ELSE 1

\* A handler is handed an AddFileInfo request.
AddFileInfoCall(p, userID, filename, lastMod, chunkCount, fileHash) ==
    /\ CanCall(p)
    /\ calls' = calls + 1
    /\ pc' = [pc EXCEPT ![p] = "called"]
    /\ call' = [call EXCEPT ![p] =
                  [verb |-> "AddFileInfo", userID |-> userID,
                   filename |-> filename, lastMod |-> lastMod,
                   chunkCount |-> chunkCount, fileHash |-> fileHash]]
    /\ result' = [result EXCEPT ![p] = NoResult]
    /\ UNCHANGED <<tables, locks, committed, outside>>

\* AddFileInfo: one INSERT on the database handle; the verb fails when the
\* statement fails or inserted no row, and returns the new row with its id.
AddFileInfo(p) ==
    /\ pc[p] = "called"
    /\ call[p].verb = "AddFileInfo"
    /\ LET c == call[p]
           insertedID == LastInsertId(FileInfo)
           row == [UserID |-> c.userID, FileName |-> c.filename,
                   LastMod |-> c.lastMod, ChunkCount |-> c.chunkCount,
                   FileHash |-> c.fileHash]
       IN
       IF shared # {} \/ reserved # {}
       THEN /\ Return(p, "AddFileInfo", ErrExec, NoData, FALSE, {})
            /\ UNCHANGED tables
       ELSE IF AddFileInfoAffected(FileInfo, c.userID, c.filename) # 1
       THEN /\ Return(p, "AddFileInfo", ErrAffected, NoData, FALSE, {})
            /\ UNCHANGED tables
       ELSE /\ Return(p, "AddFileInfo", ErrNil,
                      [FileID |-> insertedID, UserID |-> c.userID,
                       FileName |-> c.filename, LastMod |-> c.lastMod,
                       ChunkCount |-> c.chunkCount, FileHash |-> c.fileHash],
                      FALSE, {})
            /\ FileInfo' = InsertRow(FileInfo, insertedID, row)
            /\ UNCHANGED <<Perms, UserInfo, FileChunks>>
    /\ UNCHANGED <<locks, calls, committed, outside>>

\* Mutant of AddUserConflict: the Name column is not UNIQUE.
AddUserConflict_NotUnique(ut, username) == FALSE

\* addUser: whether the INSERT violates Name UNIQUE ... ON CONFLICT ABORT.
AddUserConflict(ut, username) ==
    \E u \in DOMAIN ut : ut[u].Name = username

\* A handler is handed an AddUser request.
AddUserCall(p, username, salt, saltedHash) ==
    /\ CanCall(p)
    /\ calls' = calls + 1
    /\ pc' = [pc EXCEPT ![p] = "called"]
    /\ call' = [call EXCEPT ![p] =
                  [verb |-> "AddUser", username |-> username, salt |-> salt,
                   saltedHash |-> saltedHash]]
    /\ result' = [result EXCEPT ![p] = NoResult]
    /\ UNCHANGED <<tables, locks, committed, outside>>

\* AddUser: one INSERT on the database handle; a name already in the table
\* aborts the statement, and the verb returns the new user with its id.
AddUser(p) ==
    /\ pc[p] = "called"
    /\ call[p].verb = "AddUser"
    /\ LET c == call[p]
           insertedID == LastInsertId(UsersTable)
       IN
       IF shared # {} \/ reserved # {} \/ AddUserConflict(UsersTable, c.username)
       THEN /\ Return(p, "AddUser", ErrExec, NoData, FALSE, {})
            /\ UNCHANGED UsersTable
       ELSE /\ Return(p, "AddUser", ErrNil,
                      [ID |-> insertedID, Name |-> c.username, Salt |-> c.salt,
                       SaltedHash |-> c.saltedHash],
                      FALSE, {})
            /\ UsersTable' = InsertRow(UsersTable, insertedID,
                                       [Name |-> c.username, Salt |-> c.salt,
                                        Password |-> c.saltedHash])
    /\ UNCHANGED <<tables, locks, calls, committed, trans, client, schema>>

\* ------------------------------------------------- transact, on its own

\* How the function handed to transact ends: it returns nil or an error,
\* panics with an error value, with a value of another type or with nil, or
\* ends its goroutine with runtime.Goexit.
FooEnds == {"nil", "error", "panicError", "panicOther", "panicNil", "goexit"}

\* What recover() returns in the deferred function. After panic(nil) it is
\* nil where the Go runtime keeps the old behaviour (every release before
\* 1.21, GODEBUG=panicnil=1 after) and a *runtime.PanicNilError otherwise;
\* with no panic under way, after Goexit too, it is nil.
Recovered(end, panicnil) ==
    CASE end = "panicError" -> [type |-> "error", err |-> ErrPanic]
      [] end = "panicOther" -> [type |-> "string", err |-> ErrPanicText]
      [] end = "panicNil" /\ ~panicnil -> [type |-> "error", err |-> ErrPanicNil]
      [] OTHER -> [type |-> "nil", err |-> ErrNil]

\* The named result err once the deferred function has looked at recover():
\* the panic value when it is an error, "panic: ..." for another value, and
\* what it was before when recover() returned nil.
ErrAfterRecover(err, p) ==
    IF p.type # "nil" THEN p.err ELSE err

\* transact is called with a function that runs updateUserInfo for userID on
\* the transaction and then ends as `end` says.
TransactCall(userID, delta, end, panicnil) ==
    /\ trans.pc \in {"none", "returned", "exited"}
    /\ calls < MaxCalls
    /\ calls' = calls + 1
    /\ trans' = [pc |-> "begin", userID |-> userID, delta |-> delta,
                 end |-> end, panicnil |-> panicnil, err |-> ErrNil,
                 ran |-> FALSE, commit |-> "none", rollback |-> FALSE]
    /\ UNCHANGED <<tables, locks, pc, call, result, committed, UsersTable, client, schema>>

\* s.db.Begin() returns a transaction.
TransactBegin ==
    /\ trans.pc = "begin"
    /\ trans' = [trans EXCEPT !.pc = "run"]
    /\ UNCHANGED <<tables, locks, pc, call, result, calls, committed,
                   UsersTable, client, schema>>

\* s.db.Begin() fails: transact returns its error at once.
TransactBeginFails ==
    /\ trans.pc = "begin"
    /\ trans' = [trans EXCEPT !.pc = "returned", !.err = ErrBegin]
    /\ UNCHANGED <<tables, locks, pc, call, result, calls, committed,
                   UsersTable, client, schema>>

\* err = transFoo(tx): the function writes on the transaction and ends. The
\* assignment to err happens only when the function returns.
TransactRun ==
    /\ trans.pc = "run"
    /\ wtx' = [open |-> TRUE,
               UserInfo |-> UpdateUserInfoRow(UserInfo, trans.userID, trans.delta),
               FileChunks |-> FileChunks]
    /\ trans' = [trans EXCEPT !.pc = "deferred", !.ran = TRUE,
                              !.err = IF trans.end = "error" THEN ErrFoo ELSE @]
    /\ UNCHANGED <<tables, shared, reserved, pc, call, result, calls, committed,
                   UsersTable, client, schema>>

\* Where transact is once its deferred function has run: back at its caller,
\* or nowhere after Goexit.
AfterDeferred(end) == IF end = "goexit" THEN "exited" ELSE "returned"

\* The deferred function: recover(), then tx.Rollback() when err is set.
TransactRollback ==
    /\ trans.pc = "deferred"
    /\ LET err == ErrAfterRecover(trans.err, Recovered(trans.end, trans.panicnil))
       IN /\ err # ErrNil
          /\ trans' = [trans EXCEPT !.pc = AfterDeferred(trans.end),
                                    !.err = err, !.rollback = TRUE]
    /\ wtx' = NoTx
    /\ UNCHANGED <<tables, shared, reserved, pc, call, result, calls, committed,
                   UsersTable, client, schema>>

\* The deferred function: recover(), then err = tx.Commit(), which succeeds.
TransactCommit ==
    /\ trans.pc = "deferred"
    /\ ErrAfterRecover(trans.err, Recovered(trans.end, trans.panicnil)) = ErrNil
    /\ trans' = [trans EXCEPT !.pc = AfterDeferred(trans.end),
                              !.err = ErrNil, !.commit = "done"]
    /\ UserInfo' = wtx.UserInfo
    /\ FileChunks' = wtx.FileChunks
    /\ wtx' = NoTx
    /\ committed' = IF trans.userID \in DOMAIN UserInfo
                    THEN [committed EXCEPT ![trans.userID] =
                            [n |-> @.n + 1, delta |-> @.delta + trans.delta]]
                    ELSE committed
    /\ UNCHANGED <<Perms, FileInfo, shared, reserved, pc, call, result, calls,
                   UsersTable, client, schema>>

\* The deferred function: recover(), then err = tx.Commit(), which fails.
TransactCommitFails ==
    /\ trans.pc = "deferred"
    /\ ErrAfterRecover(trans.err, Recovered(trans.end, trans.panicnil)) = ErrNil
    /\ trans' = [trans EXCEPT !.pc = AfterDeferred(trans.end),
                              !.err = ErrCommit, !.commit = "failed"]
    /\ wtx' = NoTx
    /\ UNCHANGED <<tables, shared, reserved, pc, call, result, calls, committed,
                   UsersTable, client, schema>>

\* ------------------------------------------------------- the sync client

syncStatusMissing == 1
syncStatusLocalNewer == 2
syncStatusRemoteNewer == 3
syncStatusSame == 4

ErrRequest == "request failed"
ErrUnmarshal == "json.Unmarshal failed"
ErrLocalFile == "local file cannot be read"
ErrNotReconciled == "found differences, but this was not reconcilled"

\* The user whose token the client holds, and the remote path it syncs.
SyncUser == 1
SyncName == "a"

\* The hash of one chunk: sha1 over its bytes, base64 encoded.
ChunkHashOf(chunk) == <<"sha1", chunk>>

\* filefreezer.CalcFileHashInfo: the whole-file hash, a function of the
\* file's bytes.
FileHashOf(bytes) == <<"sha1 of file", bytes>>

\* filefreezer.CalcFileHashInfo: the number of chunks of a file.
ChunkCountOf(bytes) == (Len(bytes) + ChunkSize - 1) \div ChunkSize

\* forEachChunk: chunk i of a file is its bytes from offset i * chunkSize,
\* chunkSize of them or as many as are left.
ChunkOf(bytes, i) ==
    SubSeq(bytes, i * ChunkSize + 1,
           IF (i + 1) * ChunkSize < Len(bytes) THEN (i + 1) * ChunkSize
           ELSE Len(bytes))

\* The hashes of the chunks of a file, in chunk order.
ChunkHashes(bytes) ==
    [k \in 1 .. ChunkCountOf(bytes) |-> ChunkHashOf(ChunkOf(bytes, k - 1))]

\* A file of two chunks: a full first chunk and one more byte.
TwoChunks == Fill(ChunkSize) \o <<2>>

\* The local files runSyncFile is given: an empty file, one chunk, two
\* chunks.
LocalFiles == {<<>>, Fill(ChunkSize), TwoChunks}

\* The modification time of the remote file, and the local ones around it.
RemoteLastMod == 2
LocalLastMods == {1, 2, 3}

\* What GET /api/file/name answers for a registered file, given the local
\* file: the same or another whole-file hash, the local chunk count or one
\* more, no missing chunk or chunk 0 missing.
RemoteInfos(bytes) ==
    {[FileID |-> 1, LastMod |-> RemoteLastMod, ChunkCount |-> cc,
      FileHash |-> fh, MissingChunks |-> mc] :
        cc \in {ChunkCountOf(bytes), ChunkCountOf(bytes) + 1},
        fh \in {FileHashOf(bytes), FileHashOf(bytes \o <<3>>)},
        mc \in {<<>>, <<0>>}}

\* What GET /api/chunk/{fileID} answers: the rows of the file, as
\* (ChunkNumber, ChunkHash), in the order the server read them.
RemoteChunkLists ==
    LET ch(n, h) == [ChunkNumber |-> n, ChunkHash |-> h]
        h1 == ChunkHashOf(ChunkOf(TwoChunks, 0))
        h2 == ChunkHashOf(ChunkOf(TwoChunks, 1))
    IN
    {<<>>,
     <<ch(0, h1)>>, <<ch(0, h2)>>, <<ch(1, h2)>>,
     <<ch(0, h1), ch(1, h2)>>, <<ch(1, h2), ch(0, h1)>>,
     <<ch(0, h1), ch(1, h1)>>, <<ch(1, h1), ch(0, h2)>>,
     <<ch(0, h1), ch(1, h2), ch(2, h1)>>}

\* What GET /api/chunk/{fileID}/{i} answers: chunks without a zero byte and
\* with one, in the first place and later.
RemoteChunkBodies == {<<1>>, <<1, 0>>, <<0, 1>>}

\* A request of the client: its method, what it is about, the chunk number
\* when it is about one chunk, and whether it succeeded.
Request(method, what, i, ok) ==
    [method |-> method, what |-> what, i |-> i, ok |-> ok]

\* The client sends a request: it is added to the requests sent so far.
Sent(c, method, what, i, ok) ==
    [c EXCEPT !.log = Append(@, Request(method, what, i, ok))]

\* Mutant of QuickSame: a newer or older local file is never "the same".
QuickSame_WithLastMod(c, remote) ==
    /\ FileHashOf(c.bytes) = remote.FileHash
    /\ Len(remote.MissingChunks) = 0
    /\ Len(c.local) = remote.ChunkCount
    /\ c.localLastMod = remote.LastMod

\* The test of runSyncFile that proves nothing needs to be done.
QuickSame(c, remote) ==
    /\ FileHashOf(c.bytes) = remote.FileHash
    /\ Len(remote.MissingChunks) = 0
    /\ Len(c.local) = remote.ChunkCount

\* The strict comparison: the chunk lists are compared position by position
\* when they are of the same length, and not at all otherwise.
StrictDifferent(local, remoteChunks) ==
    IF Len(local) = Len(remoteChunks)
    THEN \E i \in 1 .. Len(local) : local[i] # remoteChunks[i].ChunkHash
    ELSE FALSE

\* Mutant of Resolution: with equal times and no missing chunk the local
\* file is taken as the right one and uploaded.
Resolution_GuessLocal(c, remote) ==
    IF c.localLastMod < remote.LastMod
    THEN [c EXCEPT !.pc = "download", !.status = syncStatusRemoteNewer,
                   !.via = "syncDownload", !.i = 0, !.written = <<>>]
    ELSE IF c.localLastMod = remote.LastMod /\ Len(remote.MissingChunks) > 0
    THEN [c EXCEPT !.pc = "putMissing", !.status = syncStatusMissing,
                   !.via = "syncUploadMissing", !.i = 0,
                   !.remoteID = remote.FileID]
    ELSE [c EXCEPT !.pc = "delete", !.status = syncStatusLocalNewer,
                   !.via = "syncUploadNewer"]

\* Mutant of Resolution: a newer local file is registered and uploaded
\* while the remote file is left in place.
Resolution_NoDelete(c, remote) ==
    IF c.localLastMod > remote.LastMod
    THEN [c EXCEPT !.pc = "post", !.status = syncStatusLocalNewer,
                   !.via = "syncUploadNewer"]
    ELSE IF c.localLastMod < remote.LastMod
    THEN [c EXCEPT !.pc = "download", !.status = syncStatusRemoteNewer,
                   !.via = "syncDownload", !.i = 0, !.written = <<>>]
    ELSE IF Len(remote.MissingChunks) > 0
    THEN [c EXCEPT !.pc = "putMissing", !.status = syncStatusMissing,
                   !.via = "syncUploadMissing", !.i = 0,
                   !.remoteID = remote.FileID]
    ELSE [c EXCEPT !.pc = "returned", !.status = 0, !.changeCount = 0,
                   !.err = ErrNotReconciled]

\* Mutant of Resolution: an older local file is uploaded, too.
Resolution_AlwaysUpload(c, remote) ==
    IF c.localLastMod # remote.LastMod
    THEN [c EXCEPT !.pc = "delete", !.status = syncStatusLocalNewer,
                   !.via = "syncUploadNewer"]
    ELSE IF Len(remote.MissingChunks) > 0
    THEN [c EXCEPT !.pc = "putMissing", !.status = syncStatusMissing,
                   !.via = "syncUploadMissing", !.i = 0,
                   !.remoteID = remote.FileID]
    ELSE [c EXCEPT !.pc = "returned", !.status = 0, !.changeCount = 0,
                   !.err = ErrNotReconciled]

\* The end of runSyncFile, once a difference was found: the newer side
\* wins, equal times upload the missing chunks, and otherwise it fails.
\* syncDownload starts by truncating the local file.
Resolution(c, remote) ==
    IF c.localLastMod > remote.LastMod
    THEN [c EXCEPT !.pc = "delete", !.status = syncStatusLocalNewer,
                   !.via = "syncUploadNewer"]
    ELSE IF c.localLastMod < remote.LastMod
    THEN [c EXCEPT !.pc = "download", !.status = syncStatusRemoteNewer,
                   !.via = "syncDownload", !.i = 0, !.written = <<>>]
    ELSE IF Len(remote.MissingChunks) > 0
    THEN [c EXCEPT !.pc = "putMissing", !.status = syncStatusMissing,
                   !.via = "syncUploadMissing", !.i = 0,
                   !.remoteID = remote.FileID]
    ELSE [c EXCEPT !.pc = "returned", !.status = 0, !.changeCount = 0,
                   !.err = ErrNotReconciled]

\* Mutant of LookupFailed: only the first run of the process uploads a file
\* that it does not find on the server.
LookupFailed_OnlyOnce(c, why) ==
    LET s == [Sent(c, "GET", "file", 0, FALSE) EXCEPT !.lookup = why] IN
    IF s.localState # "ok" \/ s.run > 1
    THEN [s EXCEPT !.pc = "returned", !.status = syncStatusMissing,
                   !.err = ErrLocalFile]
    ELSE [s EXCEPT !.pc = "post", !.status = syncStatusMissing,
                   !.via = "syncUpload"]

\* GET /api/file/name failed, because no file is registered under the name
\* or for another reason: the local file is uploaded as a new one.
LookupFailed(c, why) ==
    LET s == [Sent(c, "GET", "file", 0, FALSE) EXCEPT !.lookup = why] IN
    IF s.localState # "ok"
    THEN [s EXCEPT !.pc = "returned", !.status = syncStatusMissing,
                   !.err = ErrLocalFile]
    ELSE [s EXCEPT !.pc = "post", !.status = syncStatusMissing,
                   !.via = "syncUpload"]

\* GET /api/file/name answered with the remote file: the local file is
\* looked at and the quick test decides what comes next.
LookupAnswered(c, remote) ==
    LET s == [Sent(c, "GET", "file", 0, TRUE) EXCEPT
                !.lookup = "ok", !.remote = remote] IN
    IF s.localState = "absent"
    THEN [s EXCEPT !.pc = "download", !.status = syncStatusRemoteNewer,
                   !.via = "syncDownload", !.i = 0, !.written = <<>>]
    ELSE IF s.localState # "ok"
    THEN [s EXCEPT !.pc = "returned", !.status = 0, !.err = ErrLocalFile]
    ELSE IF QuickSame(s, remote)
    THEN IF s.strict
         THEN [s EXCEPT !.pc = "strict"]
         ELSE [s EXCEPT !.pc = "returned", !.status = syncStatusSame]
    ELSE Resolution(s, remote)

\* GET /api/chunk/{fileID} answered with the chunk list.
StrictAnswered(c, remoteChunks) ==
    LET s == [Sent(c, "GET", "chunks", 0, TRUE) EXCEPT
                !.remoteChunks = remoteChunks,
                !.different = StrictDifferent(c.local, remoteChunks)]
    IN IF ~s.different
       THEN [s EXCEPT !.pc = "returned", !.status = syncStatusSame]
       ELSE Resolution(s, s.remote)

\* syncUploadNewer: DELETE /api/file/{fileID} failed; nothing is uploaded.
DeleteFailed(c) ==
    [Sent(c, "DELETE", "file", 0, FALSE) EXCEPT
        !.pc = "returned", !.changeCount = 0, !.err = ErrRequest]

\* syncUploadNewer: the remote file is deleted, then syncUpload runs.
Deleted(c) == [Sent(c, "DELETE", "file", 0, TRUE) EXCEPT !.pc = "post"]

\* syncUpload: POST /api/files failed, or its answer cannot be decoded.
PostFailed(c) ==
    [Sent(c, "POST", "file", 0, FALSE) EXCEPT
        !.pc = "returned", !.changeCount = 0, !.err = ErrRequest]

\* syncUpload: the file is registered under fileID; its chunks come next.
Posted(c, fileID) ==
    [Sent(c, "POST", "file", 0, TRUE) EXCEPT
        !.pc = "put", !.i = 0, !.remoteID = fileID]

\* forEachChunk: the callback is called for chunk i while i is less than the
\* chunk count, and the walk stops when the callback fails.
forEachChunkNext(c, chunkCount) == c.i < chunkCount

\* Mutant of PutFailed: the callback reports the failure but lets the walk
\* go on to the next chunk.
PutFailed_GoesOn(c) ==
    [Sent(c, "PUT", "chunk", c.i, FALSE) EXCEPT
        !.i = @ + 1, !.err = ErrRequest]

\* syncUpload, syncUploadMissing: PUT /api/chunk/{fileID}/{i}/{hash} failed.
PutFailed(c) ==
    [Sent(c, "PUT", "chunk", c.i, FALSE) EXCEPT
        !.pc = "returned", !.err = ErrRequest]

\* syncUpload, syncUploadMissing: chunk i is uploaded and counted.
PutDone(c) ==
    [Sent(c, "PUT", "chunk", c.i, TRUE) EXCEPT
        !.i = @ + 1, !.changeCount = @ + 1]

\* syncDownload: the chunk without what follows its first zero byte, unless
\* that is its first byte.
TrimEOF(chunk) ==
    LET zeros == {k \in 1 .. Len(chunk) : chunk[k] = 0}
        eofIndex == IF zeros = {} THEN 0 - 1
                    ELSE (CHOOSE k \in zeros : \A j \in zeros : k <= j) - 1
    IN IF eofIndex > 0 /\ eofIndex < Len(chunk)
       THEN SubSeq(chunk, 1, eofIndex)
       ELSE chunk

\* syncDownload: GET /api/chunk/{fileID}/{i} failed or cannot be decoded.
GetChunkFailed(c) ==
    [Sent(c, "GET", "chunk", c.i, FALSE) EXCEPT
        !.pc = "returned", !.err = ErrRequest]

\* syncDownload: chunk i is fetched, trimmed, written to the end of the local
\* file and counted.
GotChunk(c, chunk) ==
    [Sent(c, "GET", "chunk", c.i, TRUE) EXCEPT
        !.i = @ + 1, !.changeCount = @ + 1,
        !.written = @ \o TrimEOF(chunk)]

\* runSyncFile is called for a local file (absent, unreadable or readable)
\* with the extra-strict flag set or not.
SyncCall(strict, localState, bytes, localLastMod) ==
    /\ client.pc = "none"
    /\ client' = [NoClient EXCEPT !.pc = "lookup", !.strict = strict,
                                  !.localState = localState,
                                  !.bytes = bytes,
                                  !.local = ChunkHashes(bytes),
                                  !.localLastMod = localLastMod]
    /\ UNCHANGED <<tables, locks, pc, call, result, calls, committed,
                   UsersTable, trans, schema>>

\* GET /api/file/name fails: the file is taken as not registered.
SyncLookupFails(why) ==
    /\ client.pc = "lookup"
    /\ client' = LookupFailed(client, why)
    /\ UNCHANGED <<tables, locks, pc, call, result, calls, committed,
                   UsersTable, trans, schema>>

\* GET /api/file/name answers with something that is not a FileGetResponse.
SyncLookupGarbled ==
    /\ client.pc = "lookup"
    /\ client' = [Sent(client, "GET", "file", 0, FALSE) EXCEPT
                    !.lookup = "garbled",
                    !.pc = "returned", !.status = 0, !.err = ErrUnmarshal]
    /\ UNCHANGED <<tables, locks, pc, call, result, calls, committed,
                   UsersTable, trans, schema>>

\* GET /api/file/name answers with the remote file.
SyncLookup(remote) ==
    /\ client.pc = "lookup"
    /\ client' = LookupAnswered(client, remote)
    /\ UNCHANGED <<tables, locks, pc, call, result, calls, committed,
                   UsersTable, trans, schema>>

\* GET /api/chunk/{fileID} in strict mode fails or cannot be decoded.
SyncStrictFails ==
    /\ client.pc = "strict"
    /\ client' = [Sent(client, "GET", "chunks", 0, FALSE) EXCEPT
                    !.pc = "returned", !.status = 0, !.err = ErrUnmarshal]
    /\ UNCHANGED <<tables, locks, pc, call, result, calls, committed,
                   UsersTable, trans, schema>>

\* GET /api/chunk/{fileID} in strict mode answers with the chunk list.
SyncStrict(remoteChunks) ==
    /\ client.pc = "strict"
    /\ client' = StrictAnswered(client, remoteChunks)
    /\ UNCHANGED <<tables, locks, pc, call, result, calls, committed,
                   UsersTable, trans, schema>>

\* Mutant of SyncDeleteFails: the upload goes on after a failed DELETE.
SyncDeleteFails_GoesOn ==
    /\ client.pc = "delete"
    /\ client' = [Sent(client, "DELETE", "file", 0, FALSE) EXCEPT !.pc = "post"]
    /\ UNCHANGED <<tables, locks, pc, call, result, calls, committed,
                   UsersTable, trans, schema>>

\* syncUploadNewer: DELETE /api/file/{fileID} fails and nothing is uploaded.
SyncDeleteFails ==
    /\ client.pc = "delete"
    /\ client' = DeleteFailed(client)
    /\ UNCHANGED <<tables, locks, pc, call, result, calls, committed,
                   UsersTable, trans, schema>>

\* syncUploadNewer: the remote file is deleted, then syncUpload runs.
SyncDelete ==
    /\ client.pc = "delete"
    /\ client' = Deleted(client)
    /\ UNCHANGED <<tables, locks, pc, call, result, calls, committed,
                   UsersTable, trans, schema>>

\* syncUpload: POST /api/files fails or its answer cannot be decoded.
SyncPostFails ==
    /\ client.pc = "post"
    /\ client' = PostFailed(client)
    /\ UNCHANGED <<tables, locks, pc, call, result, calls, committed,
                   UsersTable, trans, schema>>

\* syncUpload: the file is registered and its chunks are uploaded next.
SyncPost ==
    /\ client.pc = "post"
    /\ client' = Posted(client, client.remote.FileID + 1)
    /\ UNCHANGED <<tables, locks, pc, call, result, calls, committed,
                   UsersTable, trans, schema>>

\* syncUpload, syncUploadMissing: PUT /api/chunk/{fileID}/{i}/{hash} fails.
SyncPutFails ==
    /\ client.pc \in {"put", "putMissing"}
    /\ forEachChunkNext(client, Len(client.local))
    /\ client' = PutFailed(client)
    /\ UNCHANGED <<tables, locks, pc, call, result, calls, committed,
                   UsersTable, trans, schema>>

\* syncUpload, syncUploadMissing: chunk i is uploaded and counted.
SyncPut ==
    /\ client.pc \in {"put", "putMissing"}
    /\ forEachChunkNext(client, Len(client.local))
    /\ client' = PutDone(client)
    /\ UNCHANGED <<tables, locks, pc, call, result, calls, committed,
                   UsersTable, trans, schema>>

\* syncUpload, syncUploadMissing: every chunk was uploaded. A file that was
\* not registered before is reported as LocalNewer.
SyncUploadDone ==
    /\ client.pc \in {"put", "putMissing"}
    /\ ~forEachChunkNext(client, Len(client.local))
    /\ client' = [client EXCEPT
                    !.pc = "returned",
                    !.status = IF client.via = "syncUpload"
                               THEN syncStatusLocalNewer ELSE @]
    /\ UNCHANGED <<tables, locks, pc, call, result, calls, committed,
                   UsersTable, trans, schema>>

\* syncDownload: GET /api/chunk/{fileID}/{i} fails or cannot be decoded.
SyncDownloadFails ==
    /\ client.pc = "download"
    /\ client.i < client.remote.ChunkCount
    /\ client' = GetChunkFailed(client)
    /\ UNCHANGED <<tables, locks, pc, call, result, calls, committed,
                   UsersTable, trans, schema>>

\* syncDownload: chunk i is fetched, written to the local file and counted.
SyncDownload(chunk) ==
    /\ client.pc = "download"
    /\ client.i < client.remote.ChunkCount
    /\ client' = GotChunk(client, chunk)
    /\ UNCHANGED <<tables, locks, pc, call, result, calls, committed,
                   UsersTable, trans, schema>>

\* syncDownload: every chunk of the remote file was written.
SyncDownloadDone ==
    /\ client.pc = "download"
    /\ ~(client.i < client.remote.ChunkCount)
    /\ client' = [client EXCEPT !.pc = "returned"]
    /\ UNCHANGED <<tables, locks, pc, call, result, calls, committed,
                   UsersTable, trans, schema>>

\* ------------------------------------------------- two runs side by side

\* Why a lookup fails: the server knows no file of that name, or the
\* request failed on the way or was refused.
LookupFailures == {"not registered", "request failed"}

\* What the server answers to one request of the client: the request fails,
\* its answer cannot be decoded, or it succeeds with a FileGetResponse, a
\* chunk list or a chunk, whichever the request asks for.
Response(kind, why, remote, remoteChunks, chunk) ==
    [kind |-> kind, why |-> why, remote |-> remote,
     remoteChunks |-> remoteChunks, chunk |-> chunk]

\* The answers the client may get to the request it sends next.
Responses(c) ==
    LET noRemote == [FileID |-> 1, LastMod |-> RemoteLastMod, ChunkCount |-> 0,
                     FileHash |-> FileHashOf(<<>>), MissingChunks |-> <<>>]
        plain(kind) == Response(kind, "request failed", noRemote, <<>>, <<>>)
    IN CASE c.pc = "lookup" ->
              {Response("fails", why, noRemote, <<>>, <<>>) :
                  why \in LookupFailures}
              \cup {plain("garbled")}
              \cup {Response("ok", "request failed", remote, <<>>, <<>>) :
                      remote \in RemoteInfos(c.bytes)}
         [] c.pc = "strict" ->
              {plain("fails")}
              \cup {Response("ok", "request failed", noRemote, rc, <<>>) :
                      rc \in RemoteChunkLists}
         [] c.pc = "download" ->
              {plain("fails")}
              \cup {Response("ok", "request failed", noRemote, <<>>, chunk) :
                      chunk \in RemoteChunkBodies}
         [] OTHER -> {plain("fails"), plain("ok")}

\* One step of runSyncFile: the request the client is at is answered by r,
\* or the walk over the chunks has come to its end.
Answer(c, r) ==
    CASE c.pc = "lookup" ->
           IF r.kind = "fails" THEN LookupFailed(c, r.why)
           ELSE IF r.kind = "garbled"
           THEN [Sent(c, "GET", "file", 0, FALSE) EXCEPT
                    !.lookup = "garbled",
                    !.pc = "returned", !.status = 0, !.err = ErrUnmarshal]
           ELSE LookupAnswered(c, r.remote)
      [] c.pc = "strict" ->
           IF r.kind # "ok"
           THEN [Sent(c, "GET", "chunks", 0, FALSE) EXCEPT
                    !.pc = "returned", !.status = 0, !.err = ErrUnmarshal]
           ELSE StrictAnswered(c, r.remoteChunks)
      [] c.pc = "delete" ->
           IF r.kind # "ok" THEN DeleteFailed(c) ELSE Deleted(c)
      [] c.pc = "post" ->
           IF r.kind # "ok" THEN PostFailed(c)
           ELSE Posted(c, c.remote.FileID + 1)
      [] c.pc \in {"put", "putMissing"} ->
           IF ~forEachChunkNext(c, Len(c.local))
           THEN [c EXCEPT !.pc = "returned",
                          !.status = IF c.via = "syncUpload"
                                     THEN syncStatusLocalNewer ELSE @]
           ELSE IF r.kind # "ok" THEN PutFailed(c) ELSE PutDone(c)
      [] c.pc = "download" ->
           IF ~(c.i < c.remote.ChunkCount)
           THEN [c EXCEPT !.pc = "returned"]
           ELSE IF r.kind # "ok" THEN GetChunkFailed(c)
           ELSE GotChunk(c, r.chunk)
      [] OTHER -> c

\* runSyncFile is called twice with the same arguments, flag and local
\* file: the second run, and with it the first.
ReplayCall(strict, localState, bytes, localLastMod) ==
    /\ client.pc = "none"
    /\ LET first == [NoClient EXCEPT !.pc = "lookup", !.run = 1,
                                     !.strict = strict,
                                     !.localState = localState,
                                     !.bytes = bytes,
                                     !.local = ChunkHashes(bytes),
                                     !.localLastMod = localLastMod]
       IN client' = [first EXCEPT !.run = 2, !.prev = first]
    /\ UNCHANGED <<tables, locks, pc, call, result, calls, committed,
                   UsersTable, trans, schema>>

\* Both runs get the same answer to their next request.
ReplayAnswer(r) ==
    /\ client.pc \notin {"none", "returned"}
    /\ client' = [Answer(client, r) EXCEPT !.prev = Answer(client.prev, r)]
    /\ UNCHANGED <<tables, locks, pc, call, result, calls, committed,
                   UsersTable, trans, schema>>

\* ------------------------------------------- the client and the server

\* Number of runs of runSyncFile in one behaviour.
MaxRuns == 3

\* The quota of the syncing user: one byte more than a chunk, or two chunks.
SyncQuotas == {Quota, 2 * ChunkSize}

\* The local files that are synced: empty, one byte, one chunk, two chunks
\* within the small quota and beyond it, and files with a zero byte.
SyncFiles ==
    {<<>>, <<1>>, Fill(ChunkSize), TwoChunks, Fill(2 * ChunkSize),
     <<1, 0>>, <<0, 1>>}

\* The number of bytes in a set of chunk rows.
RECURSIVE ChunkBytes(_)
ChunkBytes(rows) ==
    IF rows = {} THEN 0
    ELSE LET r == CHOOSE x \in rows : TRUE
         IN Len(r.Chunk) + ChunkBytes(rows \ {r})

\* AddFileChunk run with no other transaction open: the size check, the
\* reads, the two writes and the commit. It returns the error and the
\* tables it leaves.
AddFileChunkAlone(userID, fileID, chunkNumber, chunkHash, chunk) ==
    LET same == [err |-> ErrNil, FileChunks |-> FileChunks,
                 UserInfo |-> UserInfo]
        reads == AddFileChunkReads(Perms, UserInfo, FileInfo, userID, fileID,
                                   Len(chunk))
    IN IF ChunkTooLarge(Len(chunk))
       THEN [same EXCEPT !.err = ErrChunkTooLarge]
       ELSE IF reads # ErrNil
       THEN [same EXCEPT !.err = reads]
       ELSE IF UpdateUserInfoAffected(UserInfo, userID) # 1
       THEN [same EXCEPT !.err = ErrAffected]
       ELSE [err |-> ErrNil,
             FileChunks |-> InsertOrReplaceChunk(FileChunks, fileID,
                                                 chunkNumber, chunkHash, chunk),
             UserInfo |-> UpdateUserInfoRow(UserInfo, userID, Len(chunk))]

\* RemoveFileChunk run with no other transaction open.
RemoveFileChunkAlone(userID, fileID, chunkNumber) ==
    LET same == [err |-> ErrNil, FileChunks |-> FileChunks,
                 UserInfo |-> UserInfo]
        reads == RemoveFileChunkReads(FileInfo, FileChunks, userID, fileID,
                                      chunkNumber)
        rows == ChunkRows(FileChunks, fileID, chunkNumber)
    IN IF reads # ErrNil
       THEN [same EXCEPT !.err = reads]
       ELSE IF UpdateUserInfoAffected(UserInfo, userID) # 1
       THEN [same EXCEPT !.err = ErrAffected]
       ELSE [err |-> ErrNil,
             FileChunks |-> DeleteChunk(FileChunks, fileID, chunkNumber),
             UserInfo |-> UpdateUserInfoRow(UserInfo, userID,
                                            0 - ChunkBytes(rows))]

\* The file a user registered under a name: its ids, none or one.
FileIDsByName(fi, userID, filename) ==
    {f \in DOMAIN fi : fi[f].UserID = userID /\ fi[f].FileName = filename}

\* handleGetFile: the FileInfo of the file and its missing chunk numbers.
FileGetResponse(fileID) ==
    [FileID |-> fileID, LastMod |-> FileInfo[fileID].LastMod,
     ChunkCount |-> FileInfo[fileID].ChunkCount,
     FileHash |-> FileInfo[fileID].FileHash,
     MissingChunks |-> MissingChunkNumbers(FileInfo, FileChunks, fileID)]

\* handlePutFile: the sanity checks on the request.
FilePutRequestValid(filename, lastMod, chunkCount, fileHash) ==
    /\ Len(filename) >= 1
    /\ lastMod >= 1
    /\ chunkCount >= 0
    /\ Len(fileHash) >= 1

\* runSyncFile is called for the first time.
ServedCall(localState, bytes, localLastMod) ==
    /\ client.pc = "none"
    /\ client' = [NoClient EXCEPT !.pc = "lookup", !.run = 1,
                                  !.localState = localState,
                                  !.bytes = bytes,
                                  !.local = ChunkHashes(bytes),
                                  !.localLastMod = localLastMod]
    /\ UNCHANGED <<tables, locks, pc, call, result, calls, committed,
                   UsersTable, trans, schema>>

\* The local file a run leaves behind: syncDownload has written the chunks
\* it got to the truncated file, later than the remote file was modified.
LocalAfter(c) ==
    IF c.via = "syncDownload"
    THEN [localState |-> "ok", bytes |-> c.written,
          localLastMod |-> c.remote.LastMod + 1]
    ELSE [localState |-> c.localState, bytes |-> c.bytes,
          localLastMod |-> c.localLastMod]

\* runSyncFile is called again: for the local file as the last run left it,
\* for a fresh local path, for the local file with one more byte, saved
\* later than every file so far, or for another file of one byte, older or
\* of the same modification time.
ServedAgain(change) ==
    /\ client.pc = "returned"
    /\ client.run < MaxRuns
    /\ LET left == LocalAfter(client)
           now == CASE change = "none" -> left
                    [] change = "fresh path" ->
                          [localState |-> "absent", bytes |-> <<>>,
                           localLastMod |-> 0]
                    [] change = "modified" ->
                          [localState |-> "ok", bytes |-> left.bytes \o <<2>>,
                           localLastMod |-> left.localLastMod + 2]
                    [] change = "same time" ->
                          [localState |-> "ok", bytes |-> <<2>>,
                           localLastMod |-> left.localLastMod]
                    [] change = "older" ->
                          [localState |-> "ok", bytes |-> <<2>>,
                           localLastMod |-> left.localLastMod - 1]
       IN client' = [NoClient EXCEPT
                       !.pc = "lookup", !.run = client.run + 1,
                       !.localState = now.localState,
                       !.bytes = now.bytes,
                       !.local = ChunkHashes(now.bytes),
                       !.localLastMod = now.localLastMod,
                       !.prev = [run |-> client.run, status |-> client.status,
                                 changeCount |-> client.changeCount,
                                 err |-> client.err, via |-> client.via,
                                 bytes |-> client.bytes,
                                 localState |-> client.localState,
                                 change |-> change,
                                 tampered |-> client.tampered,
                                 UserInfo |-> UserInfo[SyncUser]]]
    /\ UNCHANGED <<tables, locks, pc, call, result, calls, committed,
                   UsersTable, trans, schema>>

\* Between two runs a chunk of the synced file is removed on the server.
ServedRemoveFileChunk(fileID, chunkNumber) ==
    /\ client.pc = "returned"
    /\ client.run < MaxRuns
    /\ ~client.tampered
    /\ LET r == RemoveFileChunkAlone(SyncUser, fileID, chunkNumber) IN
       /\ r.err = ErrNil
       /\ FileChunks' = r.FileChunks
       /\ UserInfo' = r.UserInfo
    /\ client' = [client EXCEPT !.tampered = TRUE]
    /\ UNCHANGED <<Perms, FileInfo, locks, pc, call, result, calls, committed,
                   UsersTable, trans, schema>>

\* GET /api/file/name is served: the file the user registered under the
\* name, with its missing chunk numbers, or an error when there is none.
ServedLookup ==
    /\ client.pc = "lookup"
    /\ LET ids == FileIDsByName(FileInfo, SyncUser, SyncName) IN
       client' = IF ids = {}
                 THEN LookupFailed(client, "not registered")
                 ELSE LookupAnswered(client,
                                     FileGetResponse(CHOOSE f \in ids : TRUE))
    /\ UNCHANGED <<tables, locks, pc, call, result, calls, committed,
                   UsersTable, trans, schema>>

\* DELETE /api/file/{fileID} is served: the FileInfo row and the chunk rows
\* of the file are deleted, and the bytes are given back to the user or not.
ServedDelete(debit) ==
    /\ client.pc = "delete"
    /\ LET fileID == client.remote.FileID
           rows == {r \in FileChunks : r.FileID = fileID}
       IN
       IF FileOwnerCheck(FileInfo, SyncUser, fileID) # ErrNil
       THEN /\ client' = DeleteFailed(client)
            /\ UNCHANGED tables
       ELSE /\ client' = Deleted(client)
            /\ FileInfo' = [f \in DOMAIN FileInfo \ {fileID} |-> FileInfo[f]]
            /\ FileChunks' = FileChunks \ rows
            /\ UserInfo' = IF debit
                           THEN UpdateUserInfoRow(UserInfo, SyncUser,
                                                  0 - ChunkBytes(rows))
                           ELSE UserInfo
            /\ UNCHANGED Perms
    /\ UNCHANGED <<locks, pc, call, result, calls, committed, UsersTable, trans, schema>>

\* POST /api/files is served by handlePutFile and AddFileInfo.
ServedPost ==
    /\ client.pc = "post"
    /\ LET insertedID == LastInsertId(FileInfo)
           row == [UserID |-> SyncUser, FileName |-> SyncName,
                   LastMod |-> client.localLastMod,
                   ChunkCount |-> Len(client.local),
                   FileHash |-> FileHashOf(client.bytes)]
       IN
       IF \/ ~FilePutRequestValid(SyncName, row.LastMod, row.ChunkCount,
                                  row.FileHash)
          \/ AddFileInfoAffected(FileInfo, SyncUser, SyncName) # 1
       THEN /\ client' = PostFailed(client)
            /\ UNCHANGED tables
       ELSE /\ client' = Posted(client, insertedID)
            /\ FileInfo' = InsertRow(FileInfo, insertedID, row)
            /\ UNCHANGED <<Perms, UserInfo, FileChunks>>
    /\ UNCHANGED <<locks, pc, call, result, calls, committed, UsersTable, trans, schema>>

\* PUT /api/chunk/{fileID}/{i}/{hash} is served by handlePutFileChunk and
\* AddFileChunk.
ServedPut ==
    /\ client.pc \in {"put", "putMissing"}
    /\ forEachChunkNext(client, Len(client.local))
    /\ LET chunk == ChunkOf(client.bytes, client.i)
           r == AddFileChunkAlone(SyncUser, client.remoteID, client.i,
                                  ChunkHashOf(chunk), chunk)
       IN /\ client' = IF r.err = ErrNil THEN PutDone(client)
                       ELSE PutFailed(client)
          /\ FileChunks' = r.FileChunks
          /\ UserInfo' = r.UserInfo
    /\ UNCHANGED <<Perms, FileInfo, locks, pc, call, result, calls, committed,
                   UsersTable, trans, schema>>

\* GET /api/chunk/{fileID}/{i} is served by handleGetFileChunk: the
\* ownership check of GetFileInfo, then GetFileChunk.
ServedGetChunk ==
    /\ client.pc = "download"
    /\ client.i < client.remote.ChunkCount
    /\ LET own == FileOwnerCheck(FileInfo, SyncUser, client.remote.FileID)
           q == GetFileChunkQuery(FileChunks, client.remote.FileID, client.i)
       IN client' = IF own = ErrNil /\ q.err = ErrNil
                    THEN GotChunk(client, q.data.Chunk)
                    ELSE GetChunkFailed(client)
    /\ UNCHANGED <<tables, locks, pc, call, result, calls, committed,
                   UsersTable, trans, schema>>

\* ----------------------------------------------- routes and their tokens

\* One entry of the routing table: the method and path it matches, its
\* handler, and whether the handler is wrapped in authenticateToken.
Route(method, path, handler, wrapped) ==
    [method |-> method, path |-> path, handler |-> handler,
     wrapped |-> wrapped]

\* InitRoutes: the routing table of the server.
InitRoutes ==
    {Route("POST", "/api/users/login", "handleUsersLogin", FALSE),
     Route("GET", "/api/user/stats", "handleGetUserStats", TRUE),
     Route("PUT", "/api/user/cryptohash", "handlePutUserCryptoHash", TRUE),
     Route("GET", "/api/files", "handleGetAllFiles", TRUE),
     Route("POST", "/api/files", "handlePutFile", TRUE),
     Route("POST", "/api/file/{fileid}/version", "handleNewFileVersion", TRUE),
     Route("GET", "/api/file/{fileid}", "handleGetFile", TRUE),
     Route("GET", "/api/file/{fileid}/versions", "handleGetAllFileVersion",
           TRUE),
     Route("DELETE", "/api/file/{fileid}", "handleDeleteFile", TRUE),
     Route("PUT", "/api/chunk/{fileid}/{versionID}/{chunknumber}/{chunkhash}",
           "handlePutFileChunk", TRUE),
     Route("GET", "/api/chunk/{fileid}/{versionID}/{chunknumber}",
           "handleGetFileChunk", TRUE),
     Route("GET", "/api/chunk/{fileid}/{versionID}", "handleGetFileChunks",
           TRUE)}

\* What Authorizor.VerifyToken makes of the token of a request: an error, no
\* error and no token, or the token.
Verifications == {"error", "nil", "ok"}

\* The context of a request that no middleware has added credentials to.
NoCreds == [present |-> FALSE, ID |-> 0]

\* Mutant of authenticateToken: only the error of VerifyToken is tested.
authenticateToken_ErrOnly(verify, tokenUser) ==
    IF verify = "error"
    THEN [next |-> FALSE, status |-> 403, creds |-> NoCreds]
    ELSE [next |-> TRUE, status |-> 0,
          creds |-> [present |-> TRUE, ID |-> tokenUser]]

\* authenticateToken: a request whose token VerifyToken rejects, or finds
\* none for, is answered 403; otherwise the user of the token is put into
\* the context and the next handler is called.
authenticateToken(verify, tokenUser) ==
    IF verify = "error" \/ verify = "nil"
    THEN [next |-> FALSE, status |-> 403, creds |-> NoCreds]
    ELSE [next |-> TRUE, status |-> 0,
          creds |-> [present |-> TRUE, ID |-> tokenUser]]

\* A request comes in for a route, with a token that names tokenUser when
\* it is a token at all.
RouteRequest(p, route, verify, tokenUser) ==
    /\ pc[p] = "idle"
    /\ calls < MaxCalls
    /\ calls' = calls + 1
    /\ pc' = [pc EXCEPT ![p] = "routed"]
    /\ call' = [call EXCEPT ![p] =
                    [verb |-> "http", route |-> route, verify |-> verify,
                     tokenUser |-> tokenUser, creds |-> NoCreds]]
    /\ result' = [result EXCEPT ![p] = NoResult]
    /\ UNCHANGED <<tables, locks, committed, outside>>

\* The router calls what the route registered: authenticateToken, which
\* answers 403 or calls the handler, or the handler itself.
RouteServe(p) ==
    /\ pc[p] = "routed"
    /\ LET c == call[p]
           a == IF c.route.wrapped
                THEN authenticateToken(c.verify, c.tokenUser)
                ELSE [next |-> TRUE, status |-> 0, creds |-> NoCreds]
       IN IF a.next
          THEN /\ pc' = [pc EXCEPT ![p] = "handler"]
               /\ call' = [call EXCEPT ![p].creds = a.creds]
               /\ UNCHANGED result
          ELSE /\ pc' = [pc EXCEPT ![p] = "done"]
               /\ result' = [result EXCEPT ![p] =
                               [verb |-> "http", status |-> a.status,
                                handler |-> "none", userID |-> 0]]
               /\ UNCHANGED call
    /\ UNCHANGED <<tables, locks, calls, committed, outside>>

\* The handler of the route runs. Every handler but the login handler takes
\* the credentials from the context, answers 401 when there are none, and
\* passes their user id to Storage.
RouteHandle(p) ==
    /\ pc[p] = "handler"
    /\ LET c == call[p] IN
       result' = [result EXCEPT ![p] =
                    IF c.route.handler = "handleUsersLogin"
                    THEN [verb |-> "http", status |-> 200,
                          handler |-> c.route.handler, userID |-> 0]
                    ELSE IF ~c.creds.present
                    THEN [verb |-> "http", status |-> 401,
                          handler |-> c.route.handler, userID |-> 0]
                    ELSE [verb |-> "http", status |-> 200,
                          handler |-> c.route.handler,
                          userID |-> c.creds.ID]]
    /\ pc' = [pc EXCEPT ![p] = "done"]
    /\ UNCHANGED <<tables, locks, call, calls, committed, outside>>

\* The response is written and the handler is free for the next request.
RouteDone(p) ==
    /\ pc[p] = "done"
    /\ pc' = [pc EXCEPT ![p] = "idle"]
    /\ call' = [call EXCEPT ![p] = NoCall]
    /\ result' = [result EXCEPT ![p] = NoResult]
    /\ UNCHANGED <<tables, locks, calls, committed, outside>>

\* ------------------------------------------------- handleGetFileChunk

\* Mutant of FetchOwnerStatus: the handler goes straight to GetFileChunk.
FetchOwnerStatus_Skipped(fi, userID, fileID) == 0

\* handleGetFileChunk, before it reads the chunk: GetFileInfo for the user
\* of the token must succeed (400 otherwise) and return a file of that user
\* (403 otherwise); 0 stands for going on.
FetchOwnerStatus(fi, userID, fileID) ==
    IF FileOwnerCheck(fi, userID, fileID) # ErrNil THEN 400
    ELSE IF fi[fileID].UserID # userID THEN 403
    ELSE 0

\* The response of handleGetFileChunk to the request in flight.
FetchResponse(c, status, body) ==
    [verb |-> "handleGetFileChunk", status |-> status, body |-> body,
     userID |-> c.userID, fileID |-> c.fileID,
     chunkNumber |-> c.chunkNumber]

\* GET /api/chunk/{fileid}/{chunknumber} reaches handleGetFileChunk with the
\* credentials of userID in its context.
FetchRequest(p, userID, fileID, chunkNumber) ==
    /\ CanCall(p)
    /\ calls' = calls + 1
    /\ pc' = [pc EXCEPT ![p] = "getFileInfo"]
    /\ call' = [call EXCEPT ![p] =
                    [verb |-> "handleGetFileChunk", userID |-> userID,
                     fileID |-> fileID, chunkNumber |-> chunkNumber]]
    /\ result' = [result EXCEPT ![p] = NoResult]
    /\ UNCHANGED <<tables, locks, committed, outside>>

\* The handler gets the file info first to ensure ownership.
FetchGetFileInfo(p) ==
    /\ pc[p] = "getFileInfo"
    /\ LET c == call[p]
           status == FetchOwnerStatus(FileInfo, c.userID, c.fileID)
       IN IF status # 0
          THEN /\ pc' = [pc EXCEPT ![p] = "done"]
               /\ result' = [result EXCEPT ![p] =
                               FetchResponse(c, status, <<>>)]
               /\ call' = [call EXCEPT ![p] = NoCall]
          ELSE /\ pc' = [pc EXCEPT ![p] = "getFileChunk"]
               /\ UNCHANGED <<call, result>>
    /\ UNCHANGED <<tables, locks, calls, committed, outside>>

\* The handler reads the chunk with GetFileChunk and writes its bytes.
FetchGetFileChunk(p) ==
    /\ pc[p] = "getFileChunk"
    /\ LET c == call[p]
           q == GetFileChunkQuery(FileChunks, c.fileID, c.chunkNumber)
       IN result' = [result EXCEPT ![p] =
                        IF q.err # ErrNil THEN FetchResponse(c, 400, <<>>)
                        ELSE FetchResponse(c, 200, q.data.Chunk)]
    /\ pc' = [pc EXCEPT ![p] = "done"]
    /\ call' = [call EXCEPT ![p] = NoCall]
    /\ UNCHANGED <<tables, locks, calls, committed, outside>>

\* ------------------------------------------------------------ behaviour

\* The files registered before the requests start: both belong to user 1.
InitFileInfo ==
    [f \in 1 .. 2 |->
        [UserID |-> 1,
         FileName |-> IF f = 1 THEN "a" ELSE "b",
         LastMod |-> 1,
         ChunkCount |-> IF f = 1 THEN MaxChunkNum + 1 ELSE MaxChunkNum,
         FileHash |-> "fh"]]

\* The users added before the requests start.
InitUsersTable ==
    [u \in Users |->
        [Name |-> IF u = 1 THEN "ann" ELSE "bob", Salt |-> "s", Password |-> "pw"]]

\* The requests the handlers are given. The owner of a file sends every chunk
\* number and every chunk; a user asking for a file that is not theirs, or
\* that is not registered, sends chunk number 0 with a one-byte chunk or an
\* oversized one.
AddFileChunkArgs ==
    {a \in Users \X FileIDArgs \X ChunkNums \X ChunkArgs :
        \/ a[2] \in DOMAIN InitFileInfo /\ InitFileInfo[a[2]].UserID = a[1]
        \/ /\ a[3] = 0
           /\ a[4].chunkHash = "h1"
           /\ Len(a[4].chunk) \in {1, ChunkSize + 1}}

RemoveFileChunkArgs ==
    {a \in Users \X FileIDArgs \X ChunkNums :
        \/ a[2] \in DOMAIN InitFileInfo /\ InitFileInfo[a[2]].UserID = a[1]
        \/ a[3] = 0}

\* User 2 has a quota and an allocation row and no file. User 1 owns the
\* files and has both rows, or lacks the Perms row, or lacks the UserInfo row.
Init ==
    /\ \E pu \in {{1, 2}, {2}} :
         Perms = [u \in pu |-> Quota]
    /\ \E iu \in {{1, 2}, {2}} :
         UserInfo = [u \in iu |-> [Allocated |-> 0, Revision |-> 0]]
    /\ 1 \in DOMAIN Perms \/ 1 \in DOMAIN UserInfo
    /\ FileInfo = InitFileInfo
    /\ FileChunks = {}
    /\ shared = {}
    /\ reserved = {}
    /\ wtx = NoTx
    /\ pc = [p \in Procs |-> "idle"]
    /\ call = [p \in Procs |-> NoCall]
    /\ result = [p \in Procs |-> NoResult]
    /\ calls = 0
    /\ committed = [u \in Users |-> [n |-> 0, delta |-> 0]]
    /\ UsersTable = InitUsersTable
    /\ trans = NoTrans
    /\ client = NoClient
    /\ schema = AllTables

Next ==
    \E p \in Procs :
        \/ \E a \in AddFileChunkArgs :
                AddFileChunkCall(p, a[1], a[2], a[3], a[4].chunkHash, a[4].chunk)
        \/ AddFileChunkBegin(p)
        \/ AddFileChunkWrite(p)
        \/ \E a \in RemoveFileChunkArgs :
                RemoveFileChunkCall(p, a[1], a[2], a[3])
        \/ RemoveFileChunkBegin(p)
        \/ RemoveFileChunkWrite(p)
        \/ TxCommit(p)
        \/ TxCommitBusy(p)
        \/ \E u \in Users, f \in FileIDArgs : GetFileInfo(p, u, f)
        \/ \E u \in Users, f \in FileIDArgs :
                GetMissingChunkNumbersForFile(p, u, f)
        \/ \E f \in FileIDArgs, n \in ChunkNums : GetFileChunk(p, f, n)

Spec == Init /\ [][Next]_vars

\* The database after user 1 stored a one-byte chunk 0 for file 1: the state
\* one committed AddFileChunk leaves behind.
InitStored ==
    /\ Perms = [u \in Users |-> Quota]
    /\ UserInfo = [u \in Users |->
                    IF u = 1 THEN [Allocated |-> 1, Revision |-> 1]
                    ELSE [Allocated |-> 0, Revision |-> 0]]
    /\ FileInfo = InitFileInfo
    /\ FileChunks = {[FileID |-> 1, ChunkNum |-> 0, ChunkHash |-> "h1",
                      Chunk |-> Fill(1)]}
    /\ shared = {}
    /\ reserved = {}
    /\ wtx = NoTx
    /\ pc = [p \in Procs |-> "idle"]
    /\ call = [p \in Procs |-> NoCall]
    /\ result = [p \in Procs |-> NoResult]
    /\ calls = 0
    /\ committed = [u \in Users |->
                     IF u = 1 THEN [n |-> 1, delta |-> 1]
                     ELSE [n |-> 0, delta |-> 0]]
    /\ UsersTable = InitUsersTable
    /\ trans = NoTrans
    /\ client = NoClient
    /\ schema = AllTables

SpecStored == InitStored /\ [][Next]_vars

\* The requests that register files and users: the owner of a file name, the
\* other user and a new name; a user name in use and new ones.
FileNames == {"a", "c"}
LastMods == {1, 2}
UserNames == {"ann", "cat"}
Salts == {"s", "t"}

\* The verbs that register files and users, on two handlers.
NextRegister ==
    \E p \in Procs :
        \/ \E u \in Users, fn \in FileNames, lm \in LastMods :
                AddFileInfoCall(p, u, fn, lm, 1, "fh")
        \/ AddFileInfo(p)
        \/ \E un \in UserNames, sl \in Salts : AddUserCall(p, un, sl, "pw")
        \/ AddUser(p)

SpecRegister == Init /\ [][NextRegister]_vars

\* Files are registered and listed, on two handlers.
NextFiles ==
    \E p \in Procs :
        \/ \E u \in Users, fn \in FileNames, lm \in LastMods :
                AddFileInfoCall(p, u, fn, lm, 1, "fh")
        \/ AddFileInfo(p)
        \/ \E u \in Users : GetAllUserFileInfos(p, u)

SpecFiles == Init /\ [][NextFiles]_vars

\* transact around every function of FooEnds, on either Go runtime.
NextTransact ==
    \/ \E u \in Users, d \in {1, 2}, e \in FooEnds, pn \in BOOLEAN :
            TransactCall(u, d, e, pn)
    \/ TransactBegin
    \/ TransactBeginFails
    \/ TransactRun
    \/ TransactRollback
    \/ TransactCommit
    \/ TransactCommitFails

SpecTransact == Init /\ [][NextTransact]_vars

\* One run of runSyncFile over every local file, remote answer and failure.
LocalStates == {"absent", "unreadable", "ok"}

NextSync ==
    \/ \E strict \in BOOLEAN, localState \in LocalStates,
          bytes \in LocalFiles, localLastMod \in LocalLastMods :
          SyncCall(strict, localState, bytes, localLastMod)
    \/ \E why \in LookupFailures : SyncLookupFails(why)
    \/ SyncLookupGarbled
    \/ \E remote \in RemoteInfos(client.bytes) : SyncLookup(remote)
    \/ SyncStrictFails
    \/ \E remoteChunks \in RemoteChunkLists : SyncStrict(remoteChunks)
    \/ SyncDeleteFails
    \/ SyncDelete
    \/ SyncPostFails
    \/ SyncPost
    \/ SyncPutFails
    \/ SyncPut
    \/ SyncUploadDone
    \/ SyncDownloadFails
    \/ \E chunk \in RemoteChunkBodies : SyncDownload(chunk)
    \/ SyncDownloadDone

SpecSync == Init /\ [][NextSync]_vars

\* Two runs of runSyncFile with the same input and the same answers.
NextReplay ==
    \/ \E strict \in BOOLEAN, localState \in LocalStates,
          bytes \in LocalFiles, localLastMod \in LocalLastMods :
          ReplayCall(strict, localState, bytes, localLastMod)
    \/ \E r \in Responses(client) : ReplayAnswer(r)

SpecReplay == Init /\ [][NextReplay]_vars

\* The sync client against the server: user 1 syncs its local file with
\* the path "a", under which another user has registered a file.
InitEndToEnd ==
    /\ \E q \in SyncQuotas : Perms = [u \in Users |-> IF u = SyncUser THEN q ELSE Quota]
    /\ UserInfo = [u \in Users |-> [Allocated |-> 0, Revision |-> 0]]
    /\ FileInfo = [f \in {1} |->
                     [UserID |-> 2, FileName |-> SyncName, LastMod |-> 1,
                      ChunkCount |-> 1, FileHash |-> FileHashOf(<<1>>)]]
    /\ FileChunks = {}
    /\ shared = {}
    /\ reserved = {}
    /\ wtx = NoTx
    /\ pc = [p \in Procs |-> "idle"]
    /\ call = [p \in Procs |-> NoCall]
    /\ result = [p \in Procs |-> NoResult]
    /\ calls = 0
    /\ committed = [u \in Users |-> [n |-> 0, delta |-> 0]]
    /\ UsersTable = InitUsersTable
    /\ trans = NoTrans
    /\ client = NoClient
    /\ schema = AllTables

Changes == {"none", "fresh path", "modified", "same time", "older"}

NextEndToEnd ==
    \/ \E localState \in {"absent", "ok"}, bytes \in SyncFiles,
          localLastMod \in {1, 2} :
          ServedCall(localState, bytes, localLastMod)
    \/ \E change \in Changes : ServedAgain(change)
    \/ \E fileID \in FileIDArgs, chunkNumber \in ChunkNums :
          ServedRemoveFileChunk(fileID, chunkNumber)
    \/ ServedLookup
    \/ \E debit \in BOOLEAN : ServedDelete(debit)
    \/ ServedPost
    \/ ServedPut
    \/ SyncUploadDone
    \/ ServedGetChunk
    \/ SyncDownloadDone

SpecEndToEnd == InitEndToEnd /\ [][NextEndToEnd]_vars

\* Requests to the routes of the server, with every kind of token.
NextRoutes ==
    \E p \in Procs :
        \/ \E route \in InitRoutes, verify \in Verifications,
              tokenUser \in Users :
              RouteRequest(p, route, verify, tokenUser)
        \/ RouteServe(p)
        \/ RouteHandle(p)
        \/ RouteDone(p)

SpecRoutes == Init /\ [][NextRoutes]_vars

\* Chunk fetches of both users for the files of user 1 and an unknown file.
NextFetch ==
    \E p \in Procs :
        \/ \E u \in Users, f \in FileIDArgs, n \in ChunkNums :
              FetchRequest(p, u, f, n)
        \/ FetchGetFileInfo(p)
        \/ FetchGetFileChunk(p)

SpecFetch == InitStored /\ [][NextFetch]_vars

\* A database file that is new, or one in which a run of CreateTables got
\* as far as some table, or the initialised one with its rows.
InitOpen ==
    /\ \E n \in 0 .. Len(TableNames) :
         /\ schema = {TableNames[i] : i \in 1 .. n}
         /\ IF n = Len(TableNames)
            THEN /\ Perms = [u \in Users |-> Quota]
                 /\ UserInfo = [u \in Users |->
                                 IF u = 1 THEN [Allocated |-> 1, Revision |-> 1]
                                 ELSE [Allocated |-> 0, Revision |-> 0]]
                 /\ FileInfo = InitFileInfo
                 /\ FileChunks = {[FileID |-> 1, ChunkNum |-> 0,
                                   ChunkHash |-> "h1", Chunk |-> Fill(1)]}
                 /\ UsersTable = InitUsersTable
            ELSE /\ Perms = <<>>
                 /\ UserInfo = <<>>
                 /\ FileInfo = <<>>
                 /\ FileChunks = {}
                 /\ UsersTable = <<>>
    /\ shared = {}
    /\ reserved = {}
    /\ wtx = NoTx
    /\ pc = [p \in Procs |-> "idle"]
    /\ call = [p \in Procs |-> NoCall]
    /\ result = [p \in Procs |-> NoResult]
    /\ calls = 0
    /\ committed = [u \in Users |-> [n |-> 0, delta |-> 0]]
    /\ trans = NoTrans
    /\ client = NoClient

\* Two processes open the same database file.
NextOpen ==
    \E p \in Procs :
        \/ \E opened \in BOOLEAN : openStorage(p, opened)
        \/ CreateTables(p)

SpecOpen == InitOpen /\ [][NextOpen]_vars

\* The quotas handed to SetUserQuota and the allocation counts handed to
\* SetUserInfo: none, the quota, and one byte more.
SetQuotas == {0, Quota}
SetAllocations == {0, Quota, Quota + 1}

\* AddFileChunk and the two verbs that set a user's rows, on two handlers.
NextAdmin ==
    \E p \in Procs :
        \/ \E a \in AddFileChunkArgs :
                AddFileChunkCall(p, a[1], a[2], a[3], a[4].chunkHash, a[4].chunk)
        \/ AddFileChunkBegin(p)
        \/ AddFileChunkWrite(p)
        \/ TxCommit(p)
        \/ TxCommitBusy(p)
        \/ \E u \in Users, q \in SetQuotas : SetUserQuota(p, u, q)
        \/ \E u \in Users, a \in SetAllocations : SetUserInfo(p, u, a, 0)

SpecAdmin == InitStored /\ [][NextAdmin]_vars

\* The allocation deltas handed to UpdateUserInfo.
AllocDeltas == {0 - 1, 1}

\* The verbs that write UserInfo, on two handlers.
NextUserInfo ==
    \E p \in Procs :
        \/ \E a \in AddFileChunkArgs :
                AddFileChunkCall(p, a[1], a[2], a[3], a[4].chunkHash, a[4].chunk)
        \/ AddFileChunkBegin(p)
        \/ AddFileChunkWrite(p)
        \/ \E a \in RemoveFileChunkArgs :
                RemoveFileChunkCall(p, a[1], a[2], a[3])
        \/ RemoveFileChunkBegin(p)
        \/ RemoveFileChunkWrite(p)
        \/ TxCommit(p)
        \/ TxCommitBusy(p)
        \/ \E u \in Users, d \in AllocDeltas : UpdateUserInfoCall(p, u, d)
        \/ UpdateUserInfo(p)

SpecUserInfo == Init /\ [][NextUserInfo]_vars

\* =============================================================== claims

\* The step in which handler p returns from the verb it had in flight.
Returns(p) == pc[p] # "done" /\ pc'[p] = "done"

\* The sum of the chunk lengths of a set of FileChunks rows.
RECURSIVE SumLen(_)
SumLen(rows) ==
    IF rows = {} THEN 0
    ELSE LET r == CHOOSE x \in rows : TRUE
         IN Len(r.Chunk) + SumLen(rows \ {r})

\* The rows stored for the files of one user.
UserRows(userID) ==
    {r \in FileChunks : r.FileID \in DOMAIN FileInfo
                        /\ FileInfo[r.FileID].UserID = userID}

\* C1: in every committed state, each user's allocated equals the sum of
\* the lengths of the chunks stored for that user's files.
C1_AllocatedIsStoredBytes ==
    \A u \in DOMAIN UserInfo : UserInfo[u].Allocated = SumLen(UserRows(u))

\* C2: allocated never exceeds quota, and the quota test of AddFileChunk
\* refuses a chunk exactly when quota - allocated < len(chunk).
C2_WithinQuota ==
    \A u \in DOMAIN UserInfo \cap DOMAIN Perms : UserInfo[u].Allocated <= Perms[u]

C2_QuotaTest ==
    \A p \in Procs :
        LET c == call[p]
            u == c.userID
        IN (/\ AddFileChunkBegin(p)
            /\ Len(c.chunk) <= ChunkSize
            /\ c.fileID \in DOMAIN FileInfo /\ FileInfo[c.fileID].UserID = u
            /\ u \in DOMAIN Perms /\ u \in DOMAIN UserInfo)
           => IF Perms[u] - UserInfo[u].Allocated < Len(c.chunk)
              THEN pc'[p] = "done" /\ result'[p].err = ErrQuota
              ELSE pc'[p] = "write"

C2_QuotaSafety == [](C2_WithinQuota) /\ [][C2_QuotaTest]_vars

\* C2 witness: an AddFileChunk that exactly filled the remaining headroom.
C2_Witness ==
    \E p \in Procs :
        /\ pc[p] = "done" /\ result[p].verb = "AddFileChunk"
        /\ result[p].err = ErrNil
        /\ UserInfo[1].Allocated = Perms[1]

\* C3: under every interleaving, a user's allocated is the initial value plus
\* the summed deltas of the calls that committed, revision is the number of
\* calls that committed, and allocated stays within the quota.
C3_SerialAccounting ==
    \A u \in DOMAIN UserInfo :
        /\ UserInfo[u].Allocated = committed[u].delta
        /\ UserInfo[u].Revision = committed[u].n
        /\ u \in DOMAIN Perms => UserInfo[u].Allocated <= Perms[u]

\* C3 witness: two calls overlapped; one committed, the other lost the race
\* for the write lock or for the commit.
C3_Witness ==
    \E p, q \in Procs :
        /\ p # q /\ pc[p] = "done" /\ pc[q] = "done"
        /\ result[p].verb = "AddFileChunk" /\ result[p].err = ErrNil
        /\ result[q].verb = "AddFileChunk" /\ result[q].err \in {ErrExec, ErrCommit}
        /\ committed[1].n = 1

\* C4: every step leaves the committed chunk rows and the committed
\* (allocated, revision) as they are, or shows the chunk write, the allocation
\* change and the revision bump of one committing verb together.
C4_Step ==
    \/ UserInfo' = UserInfo /\ FileChunks' = FileChunks
    \/ \E p \in Procs :
         LET c == call[p] IN
         /\ pc[p] = "commit" /\ pc'[p] = "done"
         /\ UserInfo' = [UserInfo EXCEPT ![c.userID] =
                            [Allocated |-> @.Allocated + c.delta,
                             Revision |-> @.Revision + 1]]
         /\ IF c.verb = "AddFileChunk"
            THEN [FileID |-> c.fileID, ChunkNum |-> c.chunkNumber,
                  ChunkHash |-> c.chunkHash, Chunk |-> c.chunk] \in FileChunks'
            ELSE ChunkRows(FileChunks', c.fileID, c.chunkNumber) = {}

C4_AtomicEffects == [][C4_Step]_vars

\* C4 witness: a RemoveFileChunk committed while the other handler had
\* returned from a call of its own.
C4_Witness ==
    \E p, q \in Procs :
        /\ p # q /\ pc[p] = "done" /\ pc[q] = "done"
        /\ result[p].verb = "RemoveFileChunk" /\ result[p].err = ErrNil
        /\ result[q].verb = "AddFileChunk" /\ result[q].err = ErrNil

\* C5: the tables change only in the step in which AddFileChunk or
\* RemoveFileChunk returns nil; a call that returns an error has changed no
\* chunk row and no user's allocated or revision.
C5_Step ==
    tables' # tables =>
        \E p \in Procs :
            /\ Returns(p)
            /\ result'[p].verb \in {"AddFileChunk", "RemoveFileChunk"}
            /\ result'[p].err = ErrNil

C5_ErrorChangesNothing == [][C5_Step]_vars

\* C5 witness: a call failed at its commit, after its writes.
C5_Witness ==
    \E p \in Procs :
        /\ pc[p] = "done" /\ result[p].verb = "AddFileChunk"
        /\ result[p].err = ErrCommit

\* C6: AddFileChunk with a chunk longer than ChunkSize returns the size
\* error without opening a transaction and changes nothing, a chunk of
\* exactly ChunkSize bytes passes the size check, and no stored or pending
\* chunk is longer than ChunkSize.
C6_StoredWithinChunkSize ==
    /\ \A r \in FileChunks : Len(r.Chunk) <= ChunkSize
    /\ wtx.open => \A r \in wtx.FileChunks : Len(r.Chunk) <= ChunkSize

C6_SizeCheck ==
    \A p \in Procs :
        AddFileChunkBegin(p) =>
            /\ Len(call[p].chunk) > ChunkSize =>
                 /\ pc'[p] = "done"
                 /\ result'[p].err = ErrChunkTooLarge
                 /\ ~result'[p].txn
                 /\ UNCHANGED <<tables, locks>>
            /\ Len(call[p].chunk) <= ChunkSize =>
                 ~(pc'[p] = "done" /\ result'[p].err = ErrChunkTooLarge)

C6_SizeGuard == [](C6_StoredWithinChunkSize) /\ [][C6_SizeCheck]_vars

\* C6 witness: a chunk of exactly ChunkSize bytes is stored and a longer one
\* was refused.
C6_Witness ==
    /\ \E r \in FileChunks : Len(r.Chunk) = ChunkSize
    /\ \E p \in Procs : pc[p] = "done" /\ result[p].err = ErrChunkTooLarge

NonOwner(userID, fileID) ==
    fileID \in DOMAIN FileInfo /\ FileInfo[fileID].UserID # userID

RefusedNotOwner(p, nothing) ==
    /\ pc'[p] = "done"
    /\ result'[p].err = ErrNotOwner
    /\ result'[p].data = nothing
    /\ UNCHANGED tables

\* C7 as amended: called by a user who is not the owner of an existing file,
\* GetFileInfo, GetMissingChunkNumbersForFile, RemoveFileChunk and an
\* AddFileChunk whose chunk passes the size check fail with the not-owner
\* error, return no data of the file and change no table.
C7_GuardedStep ==
    /\ \A p \in Procs, u \in Users, f \in FileIDArgs :
         NonOwner(u, f) =>
            /\ GetFileInfo(p, u, f) => RefusedNotOwner(p, NoData)
            /\ GetMissingChunkNumbersForFile(p, u, f) => RefusedNotOwner(p, NoData)
    /\ \A p \in Procs :
         (pc[p] = "called" /\ NonOwner(call[p].userID, call[p].fileID)) =>
            /\ RemoveFileChunkBegin(p) => RefusedNotOwner(p, FALSE)
            /\ (AddFileChunkBegin(p) /\ Len(call[p].chunk) <= ChunkSize)
                    => RefusedNotOwner(p, NoData)

C7_GuardedVerbs == [][C7_GuardedStep]_vars

\* C7 witness: an AddFileChunk and a GetFileInfo were both refused with the
\* not-owner error.
C7_Witness ==
    \E p, q \in Procs :
        /\ pc[p] = "done" /\ result[p].verb = "AddFileChunk"
        /\ result[p].err = ErrNotOwner
        /\ pc[q] = "done" /\ result[q].verb = "GetFileInfo"
        /\ result[q].err = ErrNotOwner

\* C7 as claimed: for a user who is not the owner of an existing file, every
\* verb that names the file is refused. GetFileChunk, which takes no caller
\* id, is held here to no more than "does not succeed and returns no data"
\* for a file that some user does not own.
C7_OriginalStep ==
    /\ C7_GuardedStep
    /\ \A p \in Procs, f \in FileIDArgs, n \in ChunkNums :
         (GetFileChunk(p, f, n) /\ \E u \in Users : NonOwner(u, f)) =>
            result'[p].err # ErrNil /\ result'[p].data = NoData

C7_AllVerbsGuarded == [][C7_OriginalStep]_vars

\* The numbers of 0 .. chunkCount-1 under which fileID has no row, ascending.
ExpectedMissing(fileID) ==
    SortInts({i \in 0 .. FileInfo[fileID].ChunkCount - 1 :
                ChunkRows(FileChunks, fileID, i) = {}})

\* C8: called by the owner, GetMissingChunkNumbersForFile returns exactly
\* the numbers of 0 .. chunkCount-1 that have no stored chunk, ascending.
C8_Step ==
    \A p \in Procs, u \in Users, f \in FileIDArgs :
        (GetMissingChunkNumbersForFile(p, u, f)
            /\ FileOwnerCheck(FileInfo, u, f) = ErrNil)
        => /\ result'[p].err = ErrNil
           /\ result'[p].data = ExpectedMissing(f)

C8_MissingExact == [][C8_Step]_vars

\* C9: a committed AddFileChunk(f, n) leaves every stored chunk under
\* another key (f, m), m # n, or of another file, as it was.
C9_Step ==
    \A p \in Procs :
        (TxCommit(p) /\ call[p].verb = "AddFileChunk") =>
            \A r \in FileChunks :
                (r.FileID # call[p].fileID \/ r.ChunkNum # call[p].chunkNumber)
                    => r \in FileChunks'

C9_OtherChunksKept == [][C9_Step]_vars

\* C10: when an AddFileChunk commits, exactly one row is stored under its
\* (fileID, chunkNumber) and GetFileChunk returns the hash and the bytes of
\* that call, whatever was stored under the key before.
C10_Step ==
    \A p \in Procs :
        (TxCommit(p) /\ call[p].verb = "AddFileChunk") =>
            LET c == call[p] IN
            /\ Cardinality(ChunkRows(FileChunks', c.fileID, c.chunkNumber)) = 1
            /\ GetFileChunkQuery(FileChunks', c.fileID, c.chunkNumber) =
                 [err |-> ErrNil,
                  data |-> [FileID |-> c.fileID, ChunkNumber |-> c.chunkNumber,
                            ChunkHash |-> c.chunkHash, Chunk |-> c.chunk]]

C10_LatestPutWins == [][C10_Step]_vars

\* C10 witness: a second AddFileChunk committed under a key that held a row
\* with another hash or other bytes, and that row is gone.
C10_Witness ==
    \E p \in Procs :
        /\ pc[p] = "done" /\ result[p].verb = "AddFileChunk"
        /\ result[p].err = ErrNil
        /\ result[p].old # {}
        /\ result[p].old \cap FileChunks = {}

\* C11: every AddFileChunk that commits raises its caller's allocated by
\* exactly the length of the new chunk, whether or not a row was stored
\* under the key; the replaced row's length is not subtracted.
C11_Step ==
    \A p \in Procs :
        (TxCommit(p) /\ call[p].verb = "AddFileChunk") =>
            /\ result'[p].err = ErrNil
            /\ UserInfo'[call[p].userID].Allocated =
                 UserInfo[call[p].userID].Allocated + Len(call[p].chunk)

C11_PutAddsLength == [][C11_Step]_vars

\* C11 witness: a re-put under a key that held a row committed, and
\* allocated is the sum of the lengths of the replaced and the new chunk.
C11_Witness ==
    \E p \in Procs :
        /\ pc[p] = "done" /\ result[p].verb = "AddFileChunk"
        /\ result[p].err = ErrNil
        /\ \E r \in result[p].old :
             \E n \in ChunkRows(FileChunks, r.FileID, r.ChunkNum) :
                /\ Len(r.Chunk) > 0
                /\ UserInfo[1].Allocated = Len(r.Chunk) + Len(n.Chunk)

\* C12: a RemoveFileChunk that commits returns true, leaves no row under
\* its (fileID, chunkNumber) and lowers its caller's allocated by exactly the
\* length of the chunk it read under that key.
C12_Step ==
    \A p \in Procs :
        (TxCommit(p) /\ call[p].verb = "RemoveFileChunk") =>
            LET c == call[p]
                stored == ChunkRows(FileChunks, c.fileID, c.chunkNumber)
            IN /\ result'[p].err = ErrNil
               /\ result'[p].data = TRUE
               /\ stored # {}
               /\ \A r \in stored : r.Chunk = c.chunk
               /\ ChunkRows(FileChunks', c.fileID, c.chunkNumber) = {}
               /\ UserInfo'[c.userID].Allocated =
                    UserInfo[c.userID].Allocated - SumLen(stored)

C12_RemoveGivesBack == [][C12_Step]_vars

\* C12 witness: a chunk was stored and then removed, and allocated is back
\* at 0 after two committed calls.
C12_Witness ==
    \E p, q \in Procs :
        /\ pc[p] = "done" /\ result[p].verb = "RemoveFileChunk"
        /\ result[p].err = ErrNil /\ result[p].data = TRUE
        /\ pc[q] = "done" /\ result[q].verb = "AddFileChunk"
        /\ result[q].err = ErrNil
        /\ FileChunks = {}
        /\ UserInfo[1].Allocated = 0 /\ UserInfo[1].Revision = 2

\* C13: RemoveFileChunk for a key under which no chunk is stored returns
\* (false, error); it returns true only in the step that deletes the stored
\* row, and every error comes with false.
C13_Step ==
    \A p \in Procs :
        /\ (RemoveFileChunkBegin(p)
              /\ ChunkRows(FileChunks, call[p].fileID, call[p].chunkNumber) = {})
             => /\ pc'[p] = "done"
                /\ result'[p].err # ErrNil
                /\ result'[p].data = FALSE
        /\ (Returns(p) /\ result'[p].verb = "RemoveFileChunk") =>
             IF result'[p].data = TRUE
             THEN /\ result'[p].err = ErrNil
                  /\ ChunkRows(FileChunks, call[p].fileID, call[p].chunkNumber) # {}
                  /\ ChunkRows(FileChunks', call[p].fileID, call[p].chunkNumber) = {}
             ELSE /\ result'[p].data = FALSE
                  /\ result'[p].err # ErrNil

RevisionVerbs == {"AddFileChunk", "RemoveFileChunk", "UpdateUserInfo"}

\* C14: in every step, a user's revision rises by exactly 1 when one of
\* AddFileChunk, RemoveFileChunk, UpdateUserInfo returns nil for that user and
\* stays as it is otherwise (in the steps of a failing call too); so it
\* never decreases and equals the number of successful calls.
C14_Step ==
    \A u \in DOMAIN UserInfo :
        LET succeeded ==
                \E p \in Procs :
                    /\ Returns(p)
                    /\ result'[p].verb \in RevisionVerbs
                    /\ result'[p].err = ErrNil
                    /\ call[p].userID = u
        IN UserInfo'[u].Revision =
              IF succeeded THEN UserInfo[u].Revision + 1 ELSE UserInfo[u].Revision

C14_RevisionEqualsCommits ==
    \A u \in DOMAIN UserInfo : UserInfo[u].Revision = committed[u].n

C14_RevisionCounts == [](C14_RevisionEqualsCommits) /\ [][C14_Step]_vars

\* C14 witness: an UpdateUserInfo and an AddFileChunk of a zero-length chunk
\* both succeeded for user 1, whose revision is 2 with allocated changed by
\* the UpdateUserInfo alone.
C14_Witness ==
    \E p, q \in Procs :
        /\ pc[p] = "done" /\ result[p].verb = "UpdateUserInfo"
        /\ result[p].err = ErrNil
        /\ pc[q] = "done" /\ result[q].verb = "AddFileChunk"
        /\ result[q].err = ErrNil
        /\ \E r \in FileChunks : Len(r.Chunk) = 0
        /\ UserInfo[1].Revision = 2
        /\ UserInfo[1].Allocated = 1

\* C15: no two FileInfo rows share (UserID, FileName); an AddFileInfo for a
\* pair that has a row fails and inserts nothing, and one for a pair that has
\* no row succeeds and inserts exactly its row, whoever else owns the name.
C15_UniqueNames ==
    \A f, g \in DOMAIN FileInfo :
        (FileInfo[f].UserID = FileInfo[g].UserID
            /\ FileInfo[f].FileName = FileInfo[g].FileName) => f = g

C15_Step ==
    \A p \in Procs :
        AddFileInfo(p) =>
            LET c == call[p]
                taken == \E f \in DOMAIN FileInfo :
                            /\ FileInfo[f].UserID = c.userID
                            /\ FileInfo[f].FileName = c.filename
            IN IF taken
               THEN result'[p].err # ErrNil /\ FileInfo' = FileInfo
               ELSE /\ result'[p].err = ErrNil
                    /\ result'[p].data.FileID \notin DOMAIN FileInfo
                    /\ DOMAIN FileInfo' = DOMAIN FileInfo \cup {result'[p].data.FileID}
                    /\ FileInfo'[result'[p].data.FileID].UserID = c.userID
                    /\ FileInfo'[result'[p].data.FileID].FileName = c.filename
                    /\ \A f \in DOMAIN FileInfo : FileInfo'[f] = FileInfo[f]

C15_OneRowPerName == [](C15_UniqueNames) /\ [][C15_Step]_vars

\* C15 witness: user 2 registered the name "a" that user 1 already has, and
\* another AddFileInfo, for a pair that had a row, failed.
C15_Witness ==
    \E p, q \in Procs :
        /\ pc[p] = "done" /\ result[p].verb = "AddFileInfo"
        /\ result[p].err = ErrNil
        /\ result[p].data.UserID = 2 /\ result[p].data.FileName = "a"
        /\ pc[q] = "done" /\ result[q].verb = "AddFileInfo"
        /\ result[q].err = ErrAffected
        /\ Cardinality(DOMAIN FileInfo) = 3

\* C16: no two Users rows share a name; an AddUser with a name in the table
\* fails and leaves the table as it is, and a successful AddUser returns a
\* userID that no row had before.
C16_UniqueUserNames ==
    \A u, v \in DOMAIN UsersTable :
        UsersTable[u].Name = UsersTable[v].Name => u = v

C16_Step ==
    \A p \in Procs :
        AddUser(p) =>
            IF \E u \in DOMAIN UsersTable : UsersTable[u].Name = call[p].username
            THEN /\ result'[p].err # ErrNil
                 /\ result'[p].data = NoData
                 /\ UsersTable' = UsersTable
            ELSE /\ result'[p].err = ErrNil
                 /\ result'[p].data.ID \notin DOMAIN UsersTable
                 /\ DOMAIN UsersTable' = DOMAIN UsersTable \cup {result'[p].data.ID}
                 /\ UsersTable'[result'[p].data.ID].Name = call[p].username
                 /\ \A u \in DOMAIN UsersTable : UsersTable'[u] = UsersTable[u]

C16_OneUserPerName == [](C16_UniqueUserNames) /\ [][C16_Step]_vars

\* C16 witness: two AddUser calls for the new name "cat" were made; one
\* returned the new userID 3 and the other failed.
C16_Witness ==
    \E p, q \in Procs :
        /\ pc[p] = "done" /\ result[p].verb = "AddUser"
        /\ result[p].err = ErrNil /\ result[p].data.Name = "cat"
        /\ pc[q] = "done" /\ result[q].verb = "AddUser"
        /\ result[q].err = ErrExec
        /\ Cardinality(DOMAIN UsersTable) = 3

\* C17: transact calls tx.Commit exactly when the function returned nil
\* without panicking; when the function returned an error or panicked, the
\* transaction is rolled back, nothing of it is committed and transact
\* returns an error; a failed commit returns the commit error; when Begin
\* fails the function is not run.
C17_TransactContract ==
    trans.pc \in {"returned", "exited"} =>
        /\ trans.commit # "none" <=> (trans.ran /\ trans.end = "nil")
        /\ (trans.ran /\ trans.end # "nil") =>
              /\ trans.rollback
              /\ trans.err # ErrNil
              /\ trans.end = "error" => trans.err = ErrFoo
              /\ trans.end = "panicError" => trans.err = ErrPanic
        /\ trans.commit = "failed" => trans.err = ErrCommit
        /\ trans.err = ErrBegin => ~trans.ran

\* The sync client found both files: the lookup answered with a registered
\* file and the local file could be read.
BothPresent ==
    client.pc # "none" /\ client.localState = "ok" /\ client.remote.FileID # 0

\* The requests of the run that change one side: upload, download, delete.
Transfers ==
    {k \in 1 .. Len(client.log) :
        ~(client.log[k].method = "GET" /\ client.log[k].what \in {"file", "chunks"})}

\* C18: with strict mode off and both files present, runSyncFile returns
\* (Same, 0), having sent no upload, download or delete request, exactly
\* when the whole-file hashes are equal, the server reports no missing chunk
\* and the chunk counts are equal, whatever the two modification times.
C18_SameExactly ==
    (BothPresent /\ ~client.strict) =>
        LET equal == /\ FileHashOf(client.bytes) = client.remote.FileHash
                     /\ client.remote.MissingChunks = <<>>
                     /\ Len(client.local) = client.remote.ChunkCount
        IN /\ equal => Transfers = {}
           /\ client.pc = "returned" =>
                 ((/\ client.status = syncStatusSame
                   /\ client.changeCount = 0
                   /\ client.err = ErrNil
                   /\ Transfers = {}) <=> equal)

\* C18 witness: strict mode is off, the local file is newer than the remote
\* one, and runSyncFile returned Same.
C18_Witness ==
    /\ client.pc = "returned" /\ BothPresent /\ ~client.strict
    /\ client.status = syncStatusSame
    /\ client.localLastMod > client.remote.LastMod
    /\ Len(client.local) = 2

\* C19: with strict mode on, runSyncFile returns Same only if the chunk list
\* of the server is neither shorter nor longer than the local file, is in
\* the order of the local chunks, and holds, for every chunk number i of the
\* local file, the hash recomputed from the local chunk i.
C19_StrictSameOnlyIfChunksMatch ==
    (/\ client.pc = "returned" /\ BothPresent /\ client.strict
     /\ client.status = syncStatusSame) =>
        /\ Len(client.remoteChunks) = Len(client.local)
        /\ \A k \in 1 .. Len(client.remoteChunks) :
              client.remoteChunks[k].ChunkNumber = k - 1
        /\ \A i \in 0 .. Len(client.local) - 1 :
              \E k \in 1 .. Len(client.remoteChunks) :
                  /\ client.remoteChunks[k].ChunkNumber = i
                  /\ client.remoteChunks[k].ChunkHash = client.local[i + 1]

\* The run found the two files different: the quick test failed, or the
\* strict comparison found a chunk hash that differs.
FilesDiffer ==
    \/ FileHashOf(client.bytes) # client.remote.FileHash
    \/ client.remote.MissingChunks # <<>>
    \/ Len(client.local) # client.remote.ChunkCount
    \/ client.different

\* The positions in the log of the requests of one method about one thing.
Requests(method, what) ==
    {k \in 1 .. Len(client.log) :
        client.log[k].method = method /\ client.log[k].what = what}

\* C20: when both files are present, differ, and the local one is newer,
\* runSyncFile returns LocalNewer; the DELETE of the remote file comes
\* before the POST that registers the new FileInfo and before every chunk
\* PUT; after a failed DELETE no POST and no PUT is sent and the count is 0.
C20_DeleteBeforeUpload ==
    (BothPresent /\ FilesDiffer /\ client.localLastMod > client.remote.LastMod) =>
        LET deletes == Requests("DELETE", "file")
            uploads == Requests("POST", "file") \cup Requests("PUT", "chunk")
        IN /\ client.pc = "returned" =>
                 (client.status = syncStatusLocalNewer /\ deletes # {})
           /\ \A k \in uploads : \E d \in deletes : d < k
           /\ (\E d \in deletes : ~client.log[d].ok) =>
                 (uploads = {} /\ client.changeCount = 0)

\* C20 witness: the newer local file of two chunks replaced the remote one:
\* DELETE, POST and two PUTs were sent, and runSyncFile returned.
C20_Witness ==
    /\ client.pc = "returned" /\ BothPresent /\ FilesDiffer
    /\ client.localLastMod > client.remote.LastMod
    /\ client.status = syncStatusLocalNewer
    /\ client.changeCount = 2
    /\ Cardinality(Requests("PUT", "chunk")) = 2

\* The remote file exists and runSyncFile has to fetch it: there is no
\* local file, or the local file differs and is the older one.
RemoteWins ==
    /\ client.lookup = "ok"
    /\ \/ client.localState = "absent"
       \/ /\ client.localState = "ok" /\ FilesDiffer
          /\ client.localLastMod < client.remote.LastMod

\* C21 (state): in that case runSyncFile returns RemoteNewer, has asked for
\* the chunks 0, 1, 2, ... in this order, for all of them up to
\* remote.ChunkCount - 1 when no request failed, and has sent no POST, PUT or
\* DELETE.
C21_DownloadOnly ==
    RemoteWins =>
        LET gets == Requests("GET", "chunk") IN
        /\ client.pc = "returned" => client.status = syncStatusRemoteNewer
        /\ \A k \in 1 .. Len(client.log) : client.log[k].method = "GET"
        /\ \A k \in gets :
              client.log[k].i = Cardinality({j \in gets : j < k})
        /\ (client.pc = "returned" /\ client.err = ErrNil) =>
              Cardinality(gets) = client.remote.ChunkCount

\* C21 (step): no step of such a run changes the files, the chunks, the
\* allocation counts or the revisions of the server.
C21_Step ==
    (RemoteWins' /\ client.pc # "returned") => UNCHANGED tables

Listed(numbers) == {numbers[k] : k \in 1 .. Len(numbers)}

\* C22: when both files are present and differ, the modification times are
\* equal and the server lists missing chunks, runSyncFile returns Missing;
\* it PUTs no chunk that is not listed, and once it returned without error
\* it has PUT every listed chunk and its count is the length of the list.
C22_UploadsExactlyMissing ==
    (/\ BothPresent /\ FilesDiffer
     /\ client.localLastMod = client.remote.LastMod
     /\ client.remote.MissingChunks # <<>>) =>
        LET puts == {client.log[k].i : k \in Requests("PUT", "chunk")} IN
        /\ client.pc = "returned" => client.status = syncStatusMissing
        /\ puts \subseteq Listed(client.remote.MissingChunks)
        /\ (client.pc = "returned" /\ client.err = ErrNil) =>
              /\ puts = Listed(client.remote.MissingChunks)
              /\ client.changeCount = Len(client.remote.MissingChunks)

\* Both files are present and differ, the modification times are equal and
\* the server lists no missing chunk.
NothingToGoBy ==
    /\ BothPresent /\ FilesDiffer
    /\ client.localLastMod = client.remote.LastMod
    /\ client.remote.MissingChunks = <<>>

\* C23 (state): in that case runSyncFile returns an error and the count 0,
\* has sent no upload, download or delete request and has written nothing
\* to the local file.
C23_NoGuess ==
    NothingToGoBy =>
        /\ Transfers = {}
        /\ client.written = <<>>
        /\ client.via = "none"
        /\ client.pc = "returned" =>
              (client.err # ErrNil /\ client.changeCount = 0)

\* C23 (step): no step of such a run changes a table of the server.
C23_Step ==
    (NothingToGoBy' /\ client.pc # "returned") => UNCHANGED tables

\* C23: a difference that nothing resolves is reported and changes nothing.
C23_UnreconciledChangesNothing == [](C23_NoGuess) /\ [][C23_Step]_vars

\* C23 witness: the second run found another local file of the same
\* modification time as the uploaded one and returned "not reconcilled".
C23_Witness ==
    /\ client.pc = "returned" /\ NothingToGoBy
    /\ client.run = 2
    /\ client.err = ErrNotReconciled
    /\ FileChunks # {}

\* C24: runSyncFile registers the local file as a new one (POST, then the
\* chunk PUTs of syncUpload) exactly when the lookup failed because no file
\* is registered under the name; after a lookup that failed for another
\* reason nothing is uploaded.
C24_FreshUploadOnlyIfUnregistered ==
    (client.pc \notin {"none", "lookup"} /\ client.localState = "ok") =>
        /\ client.lookup = "not registered" <=> client.via = "syncUpload"
        /\ client.lookup = "request failed" =>
              (Requests("POST", "file") = {} /\ Requests("PUT", "chunk") = {})

\* The first run uploaded, or tried to upload, the local file as a new one,
\* and nothing has touched the server since it returned.
FreshUpload ==
    /\ client.run = 1 /\ client.pc = "returned" /\ ~client.tampered
    /\ client.localState = "ok" /\ client.lookup = "not registered"

\* C25: the fresh upload of a local file of k chunks that fits the quota
\* returns (LocalNewer, k) without error, has raised allocated by the length
\* of the file and revision by k, and has left every chunk 0 .. k-1 stored:
\* no chunk number is missing and GetFileChunk returns each chunk.
C25_FreshUploadStoresAll ==
    (FreshUpload /\ Len(client.bytes) <= Perms[SyncUser]) =>
        LET k == ChunkCountOf(client.bytes) IN
        /\ client.status = syncStatusLocalNewer
        /\ client.changeCount = k
        /\ client.err = ErrNil
        /\ UserInfo[SyncUser] = [Allocated |-> Len(client.bytes), Revision |-> k]
        /\ MissingChunkNumbers(FileInfo, FileChunks, client.remoteID) = <<>>
        /\ \A i \in 0 .. k - 1 :
              LET q == GetFileChunkQuery(FileChunks, client.remoteID, i) IN
              q.err = ErrNil /\ q.data.Chunk = ChunkOf(client.bytes, i)

\* The run that has returned follows a run that returned without an error,
\* for the local file as that run left it and the server as it left it.
SyncedAgain ==
    /\ client.pc = "returned" /\ client.run > 1 /\ ~client.tampered
    /\ client.prev.err = ErrNil
    /\ client.prev.change = "none" /\ ~client.prev.tampered

\* C26: a run of runSyncFile that follows a successful run, with the local
\* file and the server untouched in between and strict mode off, returns
\* (Same, 0) without error and leaves allocated and revision as the first
\* run left them.
C26_SyncIdempotent ==
    SyncedAgain =>
        /\ client.status = syncStatusSame
        /\ client.changeCount = 0
        /\ client.err = ErrNil
        /\ UserInfo[SyncUser] = client.prev.UserInfo

\* The chunk PUTs of the run that failed.
FailedPuts ==
    {k \in Requests("PUT", "chunk") : ~client.log[k].ok}

\* An upload has returned after one of its chunk PUTs failed.
C27_Stopped ==
    (client.pc = "returned" /\ FailedPuts # {}) =>
        LET puts == Requests("PUT", "chunk") IN
        /\ FailedPuts = {Len(client.log)}
        /\ \A k \in puts :
              client.log[k].i = Cardinality({j \in puts : j < k})
        /\ client.changeCount = client.log[Len(client.log)].i
        /\ client.err # ErrNil
        /\ (client.run = 1 /\ client.via = "syncUpload" /\ ~client.tampered) =>
              UserInfo[SyncUser] =
                  [Allocated |-> client.changeCount * ChunkSize,
                   Revision |-> client.changeCount]

\* A chunk PUT that fails changes nothing on the server, and one that
\* succeeds stores chunk i and counts its bytes and one revision.
C27_PutStep ==
    client.pc \in {"put", "putMissing"} =>
        LET chunk == ChunkOf(client.bytes, client.i) IN
        /\ (client'.pc = "returned" /\ client'.err # ErrNil) =>
              (FileChunks' = FileChunks /\ UserInfo' = UserInfo)
        /\ (client'.pc = client.pc /\ client'.i = client.i + 1) =>
              /\ UserInfo'[SyncUser] =
                    [Allocated |-> UserInfo[SyncUser].Allocated + Len(chunk),
                     Revision |-> UserInfo[SyncUser].Revision + 1]
              /\ ChunkRows(FileChunks', client.remoteID, client.i) # {}

RoundTrip ==
    /\ client.pc = "returned" /\ client.run = 2
    /\ client.prev.via = "syncUpload" /\ client.prev.err = ErrNil
    /\ client.prev.change = "fresh path" /\ ~client.prev.tampered

\* C28: a file of one or more chunks without a zero byte that syncUpload
\* has uploaded is written by syncDownload to a fresh path byte for byte.
C28_RoundTripIdentical ==
    (/\ RoundTrip
     /\ Len(client.prev.bytes) >= 1
     /\ \A k \in 1 .. Len(client.prev.bytes) : client.prev.bytes[k] # 0) =>
        /\ client.via = "syncDownload"
        /\ client.err = ErrNil
        /\ client.written = client.prev.bytes

Handled ==
    {p \in Procs :
        \/ pc[p] = "handler"
        \/ pc[p] = "done" /\ result[p].handler # "none"}

\* C30: on every route but POST /api/users/login the handler runs only for
\* a request whose token was verified, and with the user id of that token;
\* a request whose token is missing or invalid is answered 403 and its
\* handler does not run.
C30_HandlersBehindToken ==
    \A p \in Procs :
        (pc[p] \in {"routed", "handler", "done"}
         /\ call[p].route # Route("POST", "/api/users/login",
                                  "handleUsersLogin", FALSE)) =>
            /\ p \in Handled =>
                  /\ call[p].verify = "ok"
                  /\ call[p].creds = [present |-> TRUE,
                                      ID |-> call[p].tokenUser]
            /\ (pc[p] = "done" /\ p \in Handled) =>
                  (result[p].status = 200
                   /\ result[p].userID = call[p].tokenUser)
            /\ (pc[p] = "done" /\ call[p].verify # "ok") =>
                  (result[p].status = 403 /\ p \notin Handled)

\* One request with a verified token was handled and another, without a
\* token, was answered 403, both on routes that need a token.
C30_Witness ==
    \E p, q \in Procs :
        /\ pc[p] = "done" /\ pc[q] = "done"
        /\ call[p].route.wrapped /\ call[q].route.wrapped
        /\ call[p].verify = "ok" /\ result[p].userID = call[p].tokenUser
        /\ result[p].status = 200
        /\ call[q].verify = "nil" /\ result[q].status = 403

\* C31: handleGetFileChunk calls GetFileChunk only for a file that
\* GetFileInfo found to belong to the user of the token, and a user who does
\* not own the file gets no chunk byte of it.
C31_ChunkOnlyToOwner ==
    \A p \in Procs :
        /\ pc[p] = "getFileChunk" =>
              FileOwnerCheck(FileInfo, call[p].userID, call[p].fileID) = ErrNil
        /\ (pc[p] = "done" /\ result[p].verb = "handleGetFileChunk") =>
              \/ /\ result[p].fileID \in DOMAIN FileInfo
                 /\ FileInfo[result[p].fileID].UserID = result[p].userID
              \/ result[p].status # 200 /\ result[p].body = <<>>

\* The owner of file 1 was sent its chunk 0 and the other user was refused
\* the same chunk.
C31_Witness ==
    \E p, q \in Procs :
        /\ pc[p] = "done" /\ result[p].verb = "handleGetFileChunk"
        /\ result[p].userID = 1 /\ result[p].fileID = 1
        /\ result[p].status = 200 /\ result[p].body = Fill(1)
        /\ pc[q] = "done" /\ result[q].verb = "handleGetFileChunk"
        /\ result[q].userID = 2 /\ result[q].fileID = 1
        /\ result[q].chunkNumber = 0 /\ result[q].status = 400

\* The bytes of a chunk before its first zero byte: all of them when it has
\* none.
RECURSIVE BeforeZero(_)
BeforeZero(chunk) ==
    IF chunk = <<>> \/ Head(chunk) = 0 THEN <<>>
    ELSE <<Head(chunk)>> \o BeforeZero(Tail(chunk))

\* syncDownload gets chunk i from the server and writes it.
C32_Step ==
    (client.pc = "download" /\ client'.changeCount = client.changeCount + 1) =>
        LET q == GetFileChunkQuery(FileChunks, client.remote.FileID, client.i)
        IN client'.written = client.written \o BeforeZero(q.data.Chunk)

\* C32: syncDownload adds to the local file, for each chunk it receives,
\* exactly the bytes before the first zero byte of the chunk, wherever that
\* zero byte is, and the whole chunk when it has none.
C32_WritesBeforeZero == [][C32_Step]_vars

\* GetMissingChunkNumbersForFile returns to its owner while chunk mutations
\* of other handlers are in flight.
C33_Step ==
    \A p \in Procs, u \in Users, f \in FileIDArgs :
        (/\ result'[p].verb = "GetMissingChunkNumbersForFile"
         /\ GetMissingChunkNumbersForFile(p, u, f)
         /\ FileOwnerCheck(FileInfo, u, f) = ErrNil)
        => /\ UNCHANGED tables
           /\ result'[p].txn
           /\ result'[p].data = ExpectedMissing(f)

\* C33: the list GetMissingChunkNumbersForFile returns while AddFileChunk
\* and RemoveFileChunk run on the same file is the missing set of one
\* committed state: chunkCount and the stored chunk numbers are read in
\* one transaction, from the tables as they are committed at that moment.
C33_MissingOfOneState == [][C33_Step]_vars

\* The call in flight is an AddFileChunk for a chunk number that is not
\* below the chunk count of its file.
OutOfRange(c) ==
    /\ c.verb = "AddFileChunk"
    /\ c.fileID \in DOMAIN FileInfo
    /\ c.chunkNumber >= FileInfo[c.fileID].ChunkCount

\* No list of missing chunks reaches the chunk count of its file.
C34_NotListed ==
    \A f \in DOMAIN FileInfo :
        LET mia == MissingChunkNumbers(FileInfo, FileChunks, f) IN
        \A k \in 1 .. Len(mia) : mia[k] < FileInfo[f].ChunkCount

\* An out-of-range AddFileChunk that passes the size, owner and quota tests
\* goes on to its writes, and its commit counts the bytes and stores the
\* chunk where GetFileChunk finds it.
C34_Step ==
    \A p \in Procs :
        LET c == call[p] IN
        /\ (/\ pc[p] = "called" /\ OutOfRange(c) /\ pc'[p] # pc[p]
            /\ ~ChunkTooLarge(Len(c.chunk))
            /\ AddFileChunkReads(Perms, UserInfo, FileInfo, c.userID,
                                 c.fileID, Len(c.chunk)) = ErrNil)
              => pc'[p] = "write"
        /\ (pc[p] = "commit" /\ OutOfRange(c) /\ TxCommit(p)) =>
              /\ UserInfo'[c.userID].Allocated =
                    UserInfo[c.userID].Allocated + Len(c.chunk)
              /\ GetFileChunkQuery(FileChunks', c.fileID, c.chunkNumber) =
                    [err |-> ErrNil,
                     data |-> [FileID |-> c.fileID,
                               ChunkNumber |-> c.chunkNumber,
                               ChunkHash |-> c.chunkHash, Chunk |-> c.chunk]]

\* C34: AddFileChunk for a chunk number at or above the chunk count of the
\* file is accepted and counted in allocated, GetFileChunk returns the
\* chunk, and GetMissingChunkNumbersForFile lists no such number.
C34_OutOfRangeAccepted == [](C34_NotListed) /\ [][C34_Step]_vars

\* A chunk with a number at or above the chunk count of its file is stored
\* and its bytes are counted.
C34_Witness ==
    \E r \in FileChunks :
        /\ r.FileID \in DOMAIN FileInfo
        /\ r.ChunkNum >= FileInfo[r.FileID].ChunkCount
        /\ Len(r.Chunk) > 0
        /\ UserInfo[FileInfo[r.FileID].UserID].Allocated >= Len(r.Chunk)
        /\ \E p \in Procs :
              /\ pc[p] = "done" /\ result[p].verb = "AddFileChunk"
              /\ result[p].err = ErrNil
        /\ MissingChunkNumbers(FileInfo, FileChunks, r.FileID) = <<>>

\* Every chunk row, committed or written by the open transaction, names a
\* registered file.
C35_RowsOfRegisteredFiles ==
    /\ \A r \in FileChunks : r.FileID \in DOMAIN FileInfo
    /\ wtx.open => \A r \in wtx.FileChunks : r.FileID \in DOMAIN FileInfo

\* AddFileChunk for a file id without a FileInfo row returns an error at
\* once and leaves the tables as they are.
C35_Step ==
    \A p \in Procs :
        (/\ pc[p] = "called" /\ call[p].verb = "AddFileChunk"
         /\ call[p].fileID \notin DOMAIN FileInfo /\ pc'[p] # pc[p]) =>
            /\ pc'[p] = "done"
            /\ result'[p].err # ErrNil
            /\ UNCHANGED <<tables, wtx>>

\* C35: AddFileChunk with a fileID that has no FileInfo row fails and
\* stores nothing, and every FileChunks row belongs to a registered file.
C35_ChunksOfRegisteredFiles ==
    [](C35_RowsOfRegisteredFiles) /\ [][C35_Step]_vars

\* AddFileChunk for the unknown file 3 has failed while a chunk of a
\* registered file is stored.
C35_Witness ==
    /\ FileChunks # {}
    /\ \E p \in Procs :
          /\ pc[p] = "done" /\ result[p].verb = "AddFileChunk"
          /\ result[p].err = ErrNoOwner

\* C36: after every storage operation, SetUserQuota and SetUserInfo
\* included, no user has more bytes allocated than the quota allows.
C36_AllocatedWithinQuota ==
    \A u \in DOMAIN Perms \cap DOMAIN UserInfo :
        UserInfo[u].Allocated <= Perms[u]

\* C37: CreateTables ends at the first table that exists already, with
\* that table's error, having created the tables before it and none after
\* it; the rows of the database stay as they were; openStorage returns the
\* store without the error. On a database that has all its tables this is
\* the first statement.
C37_Step ==
    \A p \in Procs :
        (pc[p] = "createTables" /\ (pc'[p] # pc[p] \/ call'[p] # call[p])) =>
            /\ UNCHANGED <<tables, UsersTable>>
            /\ IF TableNames[call[p].stmt] \in schema
               THEN /\ UNCHANGED schema
                    /\ pc'[p] = "done"
                    /\ result'[p].verb = "openStorage"
                    /\ result'[p].err = ErrNil
                    /\ result'[p].data.CreateTables = CreateErrs[call[p].stmt]
               ELSE /\ schema' = schema \cup {TableNames[call[p].stmt]}
                    /\ pc'[p] = "done" =>
                          result'[p].data.CreateTables = ErrNil

C37_Returned ==
    \A p \in Procs :
        (pc[p] = "done" /\ result[p].verb = "openStorage"
            /\ result[p].data # NoData) =>
            /\ result[p].err = ErrNil
            /\ \/ result[p].data.CreateTables = ErrNil /\ schema = AllTables
               \/ \E i \in DOMAIN TableNames :
                     /\ result[p].data.CreateTables = CreateErrs[i]
                     /\ TableNames[i] \in schema

C37_CreateTablesOnExisting == [](C37_Returned) /\ [][C37_Step]_vars

\* A handler opened the initialised database: CreateTables failed on the
\* first table, the store was handed out, the rows are there.
C37_Witness ==
    \E p \in Procs :
        /\ pc[p] = "done"
        /\ result[p].verb = "openStorage"
        /\ result[p].err = ErrNil
        /\ result[p].data # NoData
        /\ result[p].data.CreateTables = CreateErrs[1]
        /\ schema = AllTables
        /\ FileChunks # {}

\* C38: GetAllUserFileInfos(userID) returns a list, empty when the user has
\* no file, that holds every FileInfo row of userID once, under its own
\* fileID and with the row's fields, and no row of another user.
C38_Step ==
    \A p \in Procs, u \in Users :
        (result'[p].verb = "GetAllUserFileInfos" /\ GetAllUserFileInfos(p, u)) =>
            LET infos == result'[p].data.infos
                own == {f \in DOMAIN FileInfo : FileInfo[f].UserID = u}
            IN /\ result'[p].err = ErrNil
               /\ result'[p].data # NoData
               /\ Len(infos) = Cardinality(own)
               /\ {infos[i].FileID : i \in 1 .. Len(infos)} = own
               /\ \A i \in 1 .. Len(infos) :
                     /\ infos[i].UserID = u
                     /\ infos[i].FileName = FileInfo[infos[i].FileID].FileName
                     /\ infos[i].LastMod = FileInfo[infos[i].FileID].LastMod
                     /\ infos[i].ChunkCount = FileInfo[infos[i].FileID].ChunkCount
                     /\ infos[i].FileHash = FileInfo[infos[i].FileID].FileHash
               /\ UNCHANGED tables

C38_OwnFilesOnly == [][C38_Step]_vars

\* Both users have files, and a handler has listed those of one of them.
C38_Witness ==
    \E p \in Procs :
        /\ pc[p] = "done"
        /\ result[p].verb = "GetAllUserFileInfos"
        /\ Len(result[p].data.infos) > 0
        /\ Len(result[p].data.infos) < Cardinality(DOMAIN FileInfo)
        /\ \A u \in Users : \E f \in DOMAIN FileInfo : FileInfo[f].UserID = u

\* The chunk rows in fc of the files of user u.
ChunksOfUser(fc, u) ==
    {r \in fc : r.FileID \in DOMAIN FileInfo /\ FileInfo[r.FileID].UserID = u}

\* C39: from allocated = 0 and no chunk, through AddFileChunk and
\* RemoveFileChunk calls, a user's allocated count is never negative and
\* never below the bytes of the user's stored chunks, in the database and
\* in the tables of the open transaction.
C39_AllocatedCoversStored ==
    /\ \A u \in DOMAIN UserInfo :
          /\ UserInfo[u].Allocated >= 0
          /\ UserInfo[u].Allocated >= SumLen(ChunksOfUser(FileChunks, u))
    /\ wtx.open =>
          \A u \in DOMAIN wtx.UserInfo :
              /\ wtx.UserInfo[u].Allocated >= 0
              /\ wtx.UserInfo[u].Allocated >=
                     SumLen(ChunksOfUser(wtx.FileChunks, u))

\* A RemoveFileChunk has committed after an AddFileChunk.
C39_Witness ==
    \E p \in Procs :
        /\ pc[p] = "done"
        /\ result[p].verb = "RemoveFileChunk"
        /\ result[p].err = ErrNil
        /\ \E u \in DOMAIN UserInfo : UserInfo[u].Revision >= 2

\* runSyncFile has returned an error from syncUploadNewer.
UploadNewerFailed ==
    /\ client.pc = "returned"
    /\ client.via = "syncUploadNewer"
    /\ client.err # ErrNil
    /\ ~client.tampered

\* File f is the file the run found on the server, as it found it.
PreviousCopy(f) ==
    /\ f = client.remote.FileID
    /\ FileInfo[f].LastMod = client.remote.LastMod
    /\ FileInfo[f].ChunkCount = client.remote.ChunkCount
    /\ FileInfo[f].FileHash = client.remote.FileHash
    /\ MissingChunkNumbers(FileInfo, FileChunks, f) = client.remote.MissingChunks

\* File f is registered with what the run computed from the local file.
NewCopy(f) ==
    /\ FileInfo[f].LastMod = client.localLastMod
    /\ FileInfo[f].ChunkCount = Len(client.local)
    /\ FileInfo[f].FileHash = FileHashOf(client.bytes)

\* File f is registered anew and holds every chunk of the local file.
CompleteNewCopy(f) ==
    /\ NewCopy(f)
    /\ \A i \in 0 .. Len(client.local) - 1 :
          \E r \in ChunkRows(FileChunks, f, i) :
              r.Chunk = ChunkOf(client.bytes, i)

\* C40 as stated: when runSyncFile returns an error from syncUploadNewer,
\* the file is registered under the remote path with its previous content
\* or with the complete new content.
C40_ServerCopySurvives ==
    UploadNewerFailed =>
        \E f \in FileIDsByName(FileInfo, SyncUser, SyncName) :
            PreviousCopy(f) \/ CompleteNewCopy(f)

\* C40, amended: when runSyncFile returns an error from syncUploadNewer,
\* the server's copy is as the run found it only if the DELETE failed; once
\* the DELETE succeeded, the remote path has no file, or the file
\* registered from the local one with no chunk but chunks of the local file
\* that were sent before the failing request.
C40_FailedUploadNewer ==
    UploadNewerFailed =>
        IF \E k \in DOMAIN client.log :
               client.log[k].method = "DELETE" /\ ~client.log[k].ok
        THEN \E f \in FileIDsByName(FileInfo, SyncUser, SyncName) :
                 PreviousCopy(f)
        ELSE \A f \in FileIDsByName(FileInfo, SyncUser, SyncName) :
                 /\ NewCopy(f)
                 /\ \A r \in FileChunks :
                       r.FileID = f =>
                           /\ r.ChunkNum < client.i
                           /\ r.Chunk = ChunkOf(client.bytes, r.ChunkNum)

\* The DELETE and the POST succeeded and a PUT failed: the file is
\* registered anew without all its chunks.
C40_Witness ==
    /\ UploadNewerFailed
    /\ \E f \in FileIDsByName(FileInfo, SyncUser, SyncName) :
          NewCopy(f) /\ ~CompleteNewCopy(f)

====
